---- MODULE Spec2Model ----
(***************************************************************************)
(* A model of hop: the request parser (engine/src/command/request/         *)
(* context.rs), the commands Set, Is, Type, Append and Increment           *)
(* (engine/src/command/impl/) and the session driver (bin/src/main.rs).    *)
(*                                                                         *)
(* Bytes are integers 0..255, byte strings are sequences of bytes.  An     *)
(* Option is a record [some, v].                                           *)
(***************************************************************************)
EXTENDS Integers, Sequences, FiniteSets, TLC

VARIABLES msg, input, ctx, last, got, emitted, refeeds, prev,
          store, pc, sreq, kt, resp, res, before, wrote,
          conn, client

\* one connection's parser and input
parserVars == <<msg, input, ctx, last, got, emitted, refeeds, prev>>

\* the state store and the command each session is dispatching
storeVars == <<store, pc, sreq, kt, resp, res, before, wrote>>

\* the connections of the server: what each session driver holds
driverVars == <<conn>>

\* a ServerBackend, the tasks that call it and the server at the other end
clientVars == <<client>>

vars == <<parserVars, storeVars, driverVars, clientVars>>

-----------------------------------------------------------------------------
(* Bounds of the model.                                                    *)

\* most arguments in a generated frame
MaxArgs == 2

\* longest argument payload in a generated frame
MaxLen == 5

\* longest part of a frame that arrives alone, short of the whole rest
MaxPart == 2

\* repeated feed calls on an unchanged buffer
MaxRefeed == 1

-----------------------------------------------------------------------------
(* Options.                                                                *)

Some(x) == [some |-> TRUE, v |-> x]

NoArgs == [some |-> FALSE, v |-> <<>>]

\* Option<KeyType>::None
NoKeyType == "None"

-----------------------------------------------------------------------------
(* Command ids and key types.                                              *)

KeyTypes == {"Bytes", "Boolean", "Float", "Integer", "List", "Map", "Set", "String"}

KeyTypeId(k) ==
    CASE k = "Bytes" -> 0
      [] k = "Boolean" -> 1
      [] k = "Float" -> 2
      [] k = "Integer" -> 3
      [] k = "List" -> 4
      [] k = "Map" -> 5
      [] k = "Set" -> 6
      [] k = "String" -> 7

\* KeyType::try_from(u8): "Invalid" stands for Err(())
KeyTypeTryFrom(id) ==
    IF \E k \in KeyTypes : KeyTypeId(k) = id
        THEN CHOOSE k \in KeyTypes : KeyTypeId(k) = id
        ELSE "Invalid"

CommandIds == {"Increment", "Decrement", "Echo", "Set", "Get", "Delete", "Rename",
               "Exists", "Is", "Type", "Keys", "Length", "Append", "Stats",
               "IncrementBy", "DecrementBy"}

CommandIdByte(c) ==
    CASE c = "Increment" -> 0
      [] c = "Decrement" -> 1
      [] c = "Echo" -> 2
      [] c = "Set" -> 3
      [] c = "Get" -> 4
      [] c = "Delete" -> 5
      [] c = "Rename" -> 6
      [] c = "Exists" -> 7
      [] c = "Is" -> 8
      [] c = "Type" -> 9
      [] c = "Keys" -> 10
      [] c = "Length" -> 11
      [] c = "Append" -> 12
      [] c = "Stats" -> 13
      [] c = "IncrementBy" -> 14
      [] c = "DecrementBy" -> 15

\* CommandId::try_from(u8): "Invalid" stands for Err(())
CommandIdTryFrom(byte) ==
    IF \E c \in CommandIds : CommandIdByte(c) = byte
        THEN CHOOSE c \in CommandIds : CommandIdByte(c) = byte
        ELSE "Invalid"

\* CommandId::is_simple
IsSimple(c) == c = "Stats"

-----------------------------------------------------------------------------
(* The argument pool: a stack of vectors.                                  *)

\* Pool::pull: a pooled vector, or a new one from the factory Vec::new
PoolPull(pool) ==
    IF pool = <<>>
        THEN [item |-> <<>>, pool |-> <<>>]
        ELSE [item |-> pool[Len(pool)], pool |-> SubSeq(pool, 1, Len(pool) - 1)]

\* Pool::push
PoolPush(pool, vec) == Append(pool, vec)

-----------------------------------------------------------------------------
(* Context.                                                                *)

ARG_LEN_BYTES == 4

StageInitValue == [name |-> "Init", cmd_type |-> "None", key_type |-> NoKeyType,
                   argument_count |-> 0]

StageKind(cmd_type, key_type) ==
    [name |-> "Kind", cmd_type |-> cmd_type, key_type |-> key_type, argument_count |-> 0]

StageArgumentParsing(argument_count, cmd_type, key_type) ==
    [name |-> "ArgumentParsing", cmd_type |-> cmd_type, key_type |-> key_type,
     argument_count |-> argument_count]

\* Context::default
NewContext ==
    [argument_pool |-> <<>>, buf_args |-> Some(<<>>), idx |-> 0, stage |-> StageInitValue]

Request(kind, key_type, args) == [kind |-> kind, key_type |-> key_type, args |-> args]

NoRequest == Request("None", NoKeyType, NoArgs)

\* what a stage returns: Ok(Conclusion) or Err(ParseError), with the context after it
Finished(c, req) == [concl |-> "Finished", ctx |-> c, req |-> req, err |-> "None"]

Incomplete(c) == [concl |-> "Incomplete", ctx |-> c, req |-> NoRequest, err |-> "None"]

NextStage(c) == [concl |-> "Next", ctx |-> c, req |-> NoRequest, err |-> "None"]

Failed(c, e) == [concl |-> "Err", ctx |-> c, req |-> NoRequest, err |-> e]

\* Context::reset_light
ResetLight(c) == [c EXCEPT !.stage = StageInitValue]

\* Context::arg_count, the count and the context it leaves
ArgCount(c) ==
    IF c.buf_args.some
        THEN [n |-> Len(c.buf_args.v), ctx |-> c]
        ELSE [n |-> 0, ctx |-> [c EXCEPT !.buf_args = Some(<<>>)]]

\* Context::push_arg
PushArg(c, arg) ==
    IF c.buf_args.some
        THEN [c EXCEPT !.buf_args = Some(Append(c.buf_args.v, arg))]
        ELSE [c EXCEPT !.buf_args = Some(<<arg>>)]

\* u32::from_be_bytes
U32FromBe(b) == ((b[1] * 256 + b[2]) * 256 + b[3]) * 256 + b[4]

\* buf.get(from..to) of a slice, with 0-based bounds: None unless from <= to <= len
SliceGet(buf, from, to) ==
    IF from <= to /\ to <= Len(buf)
        THEN Some(SubSeq(buf, from + 1, to))
        ELSE NoArgs

\* stage_init decoding the command id before the key type
StageInitCommandFirst(c, buf) ==
    IF Len(buf) = 0 THEN Incomplete(c)
    ELSE LET byte == buf[1]
             key_type == IF byte \div 128 = 1
                             THEN KeyTypeTryFrom(byte \div 2)
                             ELSE NoKeyType
             cmd_type == CommandIdTryFrom(byte)
         IN  IF cmd_type = "Invalid" THEN Failed(c, "CommandIdInvalid")
             ELSE IF key_type = "Invalid" THEN Failed(c, "KeyTypeInvalid")
             ELSE IF IsSimple(cmd_type)
                 THEN Finished(ResetLight(c), Request(cmd_type, NoKeyType, NoArgs))
             ELSE NextStage([c EXCEPT !.stage = StageKind(cmd_type, key_type),
                                      !.idx = c.idx + 1])

\* stage_init moving the cursor past the opcode before it looks at is_simple
StageInitCursorFirst(c, buf) ==
    IF Len(buf) = 0 THEN Incomplete(c)
    ELSE LET byte == buf[1]
             key_type == IF byte \div 128 = 1
                             THEN KeyTypeTryFrom(byte \div 2)
                             ELSE NoKeyType
             cmd_type == CommandIdTryFrom(byte)
             c1 == [c EXCEPT !.idx = c.idx + 1]
         IN  IF key_type = "Invalid" THEN Failed(c, "KeyTypeInvalid")
             ELSE IF cmd_type = "Invalid" THEN Failed(c, "CommandIdInvalid")
             ELSE IF IsSimple(cmd_type)
                 THEN Finished(ResetLight(c1), Request(cmd_type, NoKeyType, NoArgs))
             ELSE NextStage([c1 EXCEPT !.stage = StageKind(cmd_type, key_type)])

\* a stage_init that moves the cursor before it decodes the byte
StageInitAdvanceFirst(c, buf) ==
    IF Len(buf) = 0 THEN Incomplete(c)
    ELSE LET byte == buf[1]
             key_type == IF byte \div 128 = 1
                             THEN KeyTypeTryFrom(byte \div 2)
                             ELSE NoKeyType
             cmd_type == CommandIdTryFrom(byte)
             c1 == [c EXCEPT !.idx = c.idx + 1]
         IN  IF key_type = "Invalid" THEN Failed(c1, "KeyTypeInvalid")
             ELSE IF cmd_type = "Invalid" THEN Failed(c1, "CommandIdInvalid")
             ELSE IF IsSimple(cmd_type)
                 THEN Finished(ResetLight(c), Request(cmd_type, NoKeyType, NoArgs))
             ELSE NextStage([c1 EXCEPT !.stage = StageKind(cmd_type, key_type)])

\* Context::stage_init
StageInit(c, buf) ==
    IF Len(buf) = 0 THEN Incomplete(c)
    ELSE LET byte == buf[1]
             key_type == IF byte \div 128 = 1
                             THEN KeyTypeTryFrom(byte \div 2)
                             ELSE NoKeyType
             cmd_type == CommandIdTryFrom(byte)
         IN  IF key_type = "Invalid" THEN Failed(c, "KeyTypeInvalid")
             ELSE IF cmd_type = "Invalid" THEN Failed(c, "CommandIdInvalid")
             ELSE IF IsSimple(cmd_type)
                 THEN Finished(ResetLight(c), Request(cmd_type, NoKeyType, NoArgs))
             ELSE NextStage([c EXCEPT !.stage = StageKind(cmd_type, key_type),
                                      !.idx = c.idx + 1])

\* Context::stage_kind
StageKindStep(c, buf) ==
    IF c.idx >= Len(buf) THEN Incomplete(c)
    ELSE LET argument_count == buf[c.idx + 1]
         IN  NextStage([c EXCEPT
                 !.stage = StageArgumentParsing(argument_count, c.stage.cmd_type,
                                                c.stage.key_type),
                 !.idx = c.idx + 1])

\* stage_argument_parsing moving the cursor past the length prefix before it
\* knows that the payload is there
StageArgumentParsingEager(c, buf) ==
    LET len_bytes == SliceGet(buf, c.idx, c.idx + ARG_LEN_BYTES)
    IN  IF ~len_bytes.some THEN Incomplete(c)
        ELSE LET arg_len == U32FromBe(len_bytes.v)
                 c0 == [c EXCEPT !.idx = c.idx + ARG_LEN_BYTES]
                 arg == SliceGet(buf, c0.idx, c0.idx + arg_len)
             IN  IF ~arg.some THEN Incomplete(c0)
                 ELSE LET pulled == PoolPull(c0.argument_pool)
                          pooled_arg == pulled.item \o arg.v
                          c1 == PushArg([c0 EXCEPT !.argument_pool = pulled.pool],
                                        pooled_arg)
                          c2 == [c1 EXCEPT !.idx = c1.idx + arg_len]
                          cnt == ArgCount(c2)
                      IN  IF cnt.n = c.stage.argument_count
                              THEN Finished([cnt.ctx EXCEPT !.buf_args = NoArgs],
                                            Request(c.stage.cmd_type, c.stage.key_type,
                                                    cnt.ctx.buf_args))
                              ELSE NextStage(cnt.ctx)

\* Context::stage_argument_parsing
StageArgumentParsingStep(c, buf) ==
    LET len_bytes == SliceGet(buf, c.idx, c.idx + ARG_LEN_BYTES)
    IN  IF ~len_bytes.some THEN Incomplete(c)
        ELSE LET arg_len == U32FromBe(len_bytes.v)
                 arg == SliceGet(buf, c.idx, c.idx + arg_len)
             IN  IF ~arg.some THEN Incomplete(c)
                 ELSE LET pulled == PoolPull(c.argument_pool)
                          pooled_arg == pulled.item \o arg.v
                          c1 == PushArg([c EXCEPT !.argument_pool = pulled.pool],
                                        pooled_arg)
                          c2 == [c1 EXCEPT !.idx = c1.idx + 4 + arg_len]
                          cnt == ArgCount(c2)
                      IN  IF cnt.n = c.stage.argument_count
                              THEN Finished([cnt.ctx EXCEPT !.buf_args = NoArgs],
                                            Request(c.stage.cmd_type, c.stage.key_type,
                                                    cnt.ctx.buf_args))
                              ELSE NextStage(cnt.ctx)

\* the stage feed runs for the current value of self.stage
RunStage(c, buf) ==
    CASE c.stage.name = "Init" -> StageInit(c, buf)
      [] c.stage.name = "Kind" -> StageKindStep(c, buf)
      [] c.stage.name = "ArgumentParsing" -> StageArgumentParsingStep(c, buf)

\* Context::feed.  tag is "None" for Ok(None), "Some" for Ok(Some(req)), "Err" for
\* Err(err); entry is the context on entry to the last stage that ran.
RECURSIVE Feed(_, _)
Feed(c, buf) ==
    IF c.idx > Len(buf)
        THEN [tag |-> "None", ctx |-> c, req |-> NoRequest, err |-> "None", entry |-> c]
    ELSE LET r == RunStage(c, buf)
         IN  CASE r.concl = "Finished" ->
                    [tag |-> "Some", ctx |-> r.ctx, req |-> r.req, err |-> "None", entry |-> c]
               [] r.concl = "Incomplete" ->
                    [tag |-> "None", ctx |-> r.ctx, req |-> NoRequest, err |-> "None",
                     entry |-> c]
               [] r.concl = "Err" ->
                    [tag |-> "Err", ctx |-> r.ctx, req |-> NoRequest, err |-> r.err,
                     entry |-> c]
               [] r.concl = "Next" -> Feed(r.ctx, buf)

\* a vector pushed as it is
KeepVec(vec) == vec

\* vec.clear() of reset's loop
ClearVec(vec) == <<>>

RECURSIVE PushCleared(_, _)
PushCleared(pool, args) ==
    IF args = <<>> THEN pool
    ELSE PushCleared(PoolPush(pool, ClearVec(Head(args))), Tail(args))

\* a reset that leaves the cursor where it is
ResetKeepIdx(c, args) ==
    [ResetLight(c) EXCEPT !.argument_pool = PushCleared(c.argument_pool, args),
                          !.buf_args = Some(<<>>)]

\* Context::reset
Reset(c, args) ==
    [ResetLight(c) EXCEPT !.idx = 0,
                          !.argument_pool = PushCleared(c.argument_pool, args),
                          !.buf_args = Some(<<>>)]

-----------------------------------------------------------------------------
(* Values and the state store.  A value is [kind, v]: v is a boolean, an   *)
(* integer, a byte string (Bytes, String, and Float as its 8 IEEE bytes),  *)
(* a sequence of byte strings (List), a sequence of <<key, value>> pairs   *)
(* in insertion order (Map) or a set of byte strings (Set).                *)

Value(kind, v) == [kind |-> kind, v |-> v]

\* no value under the key
NoValue == Value("None", <<>>)

\* Value::boolean, Value::bytes, ... : the empty value of a kind
EmptyValue(K) ==
    CASE K = "Boolean" -> Value(K, FALSE)
      [] K = "Bytes" -> Value(K, <<>>)
      [] K = "Float" -> Value(K, <<0, 0, 0, 0, 0, 0, 0, 0>>)
      [] K = "Integer" -> Value(K, 0)
      [] K = "List" -> Value(K, <<>>)
      [] K = "Map" -> Value(K, <<>>)
      [] K = "Set" -> Value(K, {})
      [] K = "String" -> Value(K, <<>>)

KeyFoo == <<102, 111, 111>>

KeyBar == <<98, 97, 114>>

\* the keys of the model
Keys == {KeyFoo, KeyBar}

\* the sessions (connections) that share the store
Sessions == {1, 2}

\* State::key_type
StateKeyType(st, key) == IF st[key].kind = "None" THEN NoKeyType ELSE st[key].kind

\* State::remove
StateRemove(st, key) == [st EXCEPT ![key] = NoValue]

\* State::key_or_insert_with: the store with the factory's value under an absent key
StateKeyOrInsertWith(st, key, K) ==
    IF st[key].kind = "None" THEN [st EXCEPT ![key] = EmptyValue(K)] ELSE st

-----------------------------------------------------------------------------
(* Request accessors and typed arguments.                                  *)

NoArg == [some |-> FALSE, v |-> <<>>]

\* Request::arg(i), 0-based
ReqArg(req, i) ==
    IF req.args.some /\ i < Len(req.args.v) THEN Some(req.args.v[i + 1]) ELSE NoArg

\* Request::key
ReqKey(req) == ReqArg(req, 0)

\* Request::args(i..)
ReqArgsFrom(req, i) ==
    IF req.args.some /\ i <= Len(req.args.v)
        THEN Some(SubSeq(req.args.v, i + 1, Len(req.args.v)))
        ELSE NoArg

\* str::from_utf8(..).is_ok(), for byte strings without multi-byte sequences:
\* a byte below 128 is a character, any other byte of the model is invalid
Utf8Valid(b) == \A i \in 1..Len(b) : b[i] < 128

\* i64::from_be_bytes for the integers of the model, those whose upper five bytes
\* are the sign extension of the lower three
I64FromBe(b) ==
    LET low == (b[6] * 256 + b[7]) * 256 + b[8]
    IN  IF b[1] = 255 THEN low - 16777216 ELSE low

\* i64::to_be_bytes, same range
I64ToBe(n) ==
    LET m == IF n < 0 THEN n + 16777216 ELSE n
        f == IF n < 0 THEN 255 ELSE 0
    IN  <<f, f, f, f, f, m \div 65536, (m \div 256) % 256, m % 256>>

\* u32::to_be_bytes
U32ToBe(n) == <<(n \div 16777216) % 256, (n \div 65536) % 256, (n \div 256) % 256, n % 256>>

\* Request::typed_arg::<bool>
TypedBool(a) ==
    IF ~a.some THEN NoArg
    ELSE IF a.v = <<1>> THEN Some(TRUE)
    ELSE IF a.v = <<0>> THEN Some(FALSE)
    ELSE NoArg

\* Request::typed_arg::<i64>
TypedInt(a) == IF a.some /\ Len(a.v) = 8 THEN Some(I64FromBe(a.v)) ELSE NoArg

\* Request::typed_arg::<f64>: the float is kept as its 8 bytes
TypedFloat(a) == IF a.some /\ Len(a.v) = 8 THEN Some(a.v) ELSE NoArg

\* Request::typed_arg::<&str>
TypedStr(a) == IF a.some /\ Utf8Valid(a.v) THEN Some(a.v) ELSE NoArg

\* Map::insert: a new key goes last, a present key keeps its place
MapInsert(m, k, v) ==
    IF \E i \in 1..Len(m) : m[i][1] = k
        THEN [i \in 1..Len(m) |-> IF m[i][1] = k THEN <<k, v>> ELSE m[i]]
        ELSE Append(m, <<k, v>>)

RECURSIVE MapFromPairs(_, _)
MapFromPairs(m, rest) ==
    IF Len(rest) < 2 THEN m
    ELSE MapFromPairs(MapInsert(m, rest[1], rest[2]), SubSeq(rest, 3, Len(rest)))

\* Request::typed_args::<Map>: the arguments after the key, in pairs
TypedMap(req) ==
    LET rest == ReqArgsFrom(req, 1)
    IN  IF rest.some /\ Len(rest.v) % 2 = 0
            THEN Some(MapFromPairs(<<>>, rest.v))
            ELSE NoArg

\* Request::typed_args::<Set>: the distinct arguments after the key
TypedSet(req) ==
    LET rest == ReqArgsFrom(req, 1)
    IN  IF rest.some THEN Some({rest.v[i] : i \in 1..Len(rest.v)}) ELSE NoArg

-----------------------------------------------------------------------------
(* Response writers: a payload and the newline that ends a response.       *)

LenPrefixed(b) == U32ToBe(Len(b)) \o b

RECURSIVE ConcatPrefixed(_)
ConcatPrefixed(items) ==
    IF items = <<>> THEN <<>>
    ELSE LenPrefixed(Head(items)) \o ConcatPrefixed(Tail(items))

\* the elements of a set in the order the set yields them
RECURSIVE SetIter(_)
SetIter(S) ==
    IF S = {} THEN <<>>
    ELSE LET x == CHOOSE y \in S : TRUE IN <<x>> \o SetIter(S \ {x})

RECURSIVE ConcatPairs(_)
ConcatPairs(m) ==
    IF m = <<>> THEN <<>>
    ELSE LenPrefixed(Head(m)[1]) \o LenPrefixed(Head(m)[2]) \o ConcatPairs(Tail(m))

WriteBool(buf, b) == buf \o <<IF b THEN 1 ELSE 0>> \o <<10>>

WriteInt(buf, n) == buf \o I64ToBe(n) \o <<10>>

WriteFloat(buf, f) == buf \o f \o <<10>>

WriteBytes(buf, b) == buf \o LenPrefixed(b) \o <<10>>

WriteStr(buf, b) == buf \o LenPrefixed(b) \o <<10>>

WriteList(buf, l) == buf \o U32ToBe(Len(l)) \o ConcatPrefixed(l) \o <<10>>

WriteSet(buf, S) == buf \o U32ToBe(Cardinality(S)) \o ConcatPrefixed(SetIter(S)) \o <<10>>

WriteMap(buf, m) == buf \o U32ToBe(Len(m)) \o ConcatPairs(m) \o <<10>>

-----------------------------------------------------------------------------
(* The Set command.  Its three accesses to the store are three steps: the  *)
(* key_type lookup of dispatch, remove, and key_or_insert_with, whose      *)
(* guard is held until the function returns.                               *)

\* a Set whose list takes every argument, the key too
SetArgFromKey(K, req) ==
    CASE K = "Boolean" -> TypedBool(ReqArg(req, 1))
      [] K = "Bytes" -> ReqArg(req, 1)
      [] K = "Float" -> TypedFloat(ReqArg(req, 1))
      [] K = "Integer" -> TypedInt(ReqArg(req, 1))
      [] K = "List" -> ReqArgsFrom(req, 0)
      [] K = "Map" -> TypedMap(req)
      [] K = "Set" -> TypedSet(req)
      [] K = "String" -> TypedStr(ReqArg(req, 1))

\* the argument a Set::<kind> function reads before it touches the store
SetArg(K, req) ==
    CASE K = "Boolean" -> TypedBool(ReqArg(req, 1))
      [] K = "Bytes" -> ReqArg(req, 1)
      [] K = "Float" -> TypedFloat(ReqArg(req, 1))
      [] K = "Integer" -> TypedInt(ReqArg(req, 1))
      [] K = "List" -> ReqArgsFrom(req, 1)
      [] K = "Map" -> TypedMap(req)
      [] K = "Set" -> TypedSet(req)
      [] K = "String" -> TypedStr(ReqArg(req, 1))

\* the response a Set::<kind> function writes for its argument
SetWrite(K, buf, arg) ==
    CASE K = "Boolean" -> WriteBool(buf, arg)
      [] K = "Bytes" -> WriteBytes(buf, arg)
      [] K = "Float" -> WriteFloat(buf, arg)
      [] K = "Integer" -> WriteInt(buf, arg)
      [] K = "List" -> WriteList(buf, arg)
      [] K = "Map" -> WriteMap(buf, arg)
      [] K = "Set" -> WriteSet(buf, arg)
      [] K = "String" -> WriteStr(buf, arg)

\* a resolution that prefers the stored kind to the declared one
SetKeyTypeStoredFirst(st, req, key) ==
    IF StateKeyType(st, key) # NoKeyType THEN StateKeyType(st, key)
    ELSE IF req.key_type # NoKeyType THEN req.key_type
    ELSE "Bytes"

\* the kind Set::dispatch resolves
SetKeyType(st, req, key) ==
    IF req.key_type # NoKeyType THEN req.key_type
    ELSE IF StateKeyType(st, key) # NoKeyType THEN StateKeyType(st, key)
    ELSE "Bytes"

\* a Set that checks the key only
SetCheckKeyOnly(st, req) ==
    IF ~ReqKey(req).some THEN "KeyUnspecified" ELSE "Ok"

\* Set::dispatch up to the call of Set::<kind>, and that function's argument
\* check: "Ok" when the command goes on to the store
SetCheck(st, req) ==
    IF ~ReqKey(req).some THEN "KeyUnspecified"
    ELSE IF ~ReqArg(req, 1).some THEN "ArgumentRetrieval"
    ELSE IF ~SetArg(SetKeyType(st, req, ReqKey(req).v), req).some THEN "ArgumentRetrieval"
    ELSE "Ok"

NoSessionRequest == Request("None", NoKeyType, NoArg)

StoreInit ==
    /\ store = [k \in Keys |-> NoValue]
    /\ pc = [s \in Sessions |-> "idle"]
    /\ sreq = [s \in Sessions |-> NoSessionRequest]
    /\ kt = [s \in Sessions |-> NoKeyType]
    /\ resp = [s \in Sessions |-> <<>>]
    /\ res = [s \in Sessions |-> "None"]
    /\ before = [s \in Sessions |-> [k \in Keys |-> NoValue]]
    /\ wrote = [s \in Sessions |-> FALSE]

\* Set::dispatch begins: key, argument and kind are checked and resolved
SetDispatch(s, req) ==
    /\ pc[s] = "idle"
    /\ sreq' = [sreq EXCEPT ![s] = req]
    /\ before' = [before EXCEPT ![s] = store]
    /\ resp' = [resp EXCEPT ![s] = <<>>]
    /\ LET r == SetCheck(store, req)
       IN  IF r = "Ok"
               THEN /\ kt' = [kt EXCEPT ![s] = SetKeyType(store, req, ReqKey(req).v)]
                    /\ res' = [res EXCEPT ![s] = "None"]
                    /\ pc' = [pc EXCEPT ![s] = "remove"]
               ELSE /\ kt' = [kt EXCEPT ![s] = NoKeyType]
                    /\ res' = [res EXCEPT ![s] = r]
                    /\ pc' = [pc EXCEPT ![s] = "done"]
    /\ wrote' = [wrote EXCEPT ![s] = FALSE]
    /\ UNCHANGED <<store, parserVars, driverVars, clientVars>>

\* hop.state().remove(key)
SetRemove(s) ==
    /\ pc[s] = "remove"
    /\ store' = StateRemove(store, ReqKey(sreq[s]).v)
    /\ pc' = [pc EXCEPT ![s] = "insert"]
    /\ wrote' = [wrote EXCEPT ![s] = store[ReqKey(sreq[s]).v].kind # "None"]
    /\ UNCHANGED <<sreq, kt, resp, res, before, parserVars, driverVars, clientVars>>

\* key_or_insert_with, as_<kind>_mut, the assignment and the response
SetInsert(s) ==
    /\ pc[s] = "insert"
    /\ LET key == ReqKey(sreq[s]).v
           st == StateKeyOrInsertWith(store, key, kt[s])
           arg == SetArg(kt[s], sreq[s])
       IN  IF st[key].kind # kt[s]
               THEN /\ store' = st
                    /\ res' = [res EXCEPT ![s] = "KeyTypeDifferent"]
                    /\ UNCHANGED <<resp, wrote>>
               ELSE /\ store' = [st EXCEPT ![key] = Value(kt[s], arg.v)]
                    /\ resp' = [resp EXCEPT ![s] = SetWrite(kt[s], resp[s], arg.v)]
                    /\ res' = [res EXCEPT ![s] = "Ok"]
                    /\ wrote' = [wrote EXCEPT ![s] = TRUE]
    /\ pc' = [pc EXCEPT ![s] = "done"]
    /\ UNCHANGED <<sreq, kt, before, parserVars, driverVars, clientVars>>

\* the session is through with the command and takes the next request
Finish(s) ==
    /\ pc[s] = "done"
    /\ pc' = [pc EXCEPT ![s] = "idle"]
    /\ sreq' = [sreq EXCEPT ![s] = NoSessionRequest]
    /\ kt' = [kt EXCEPT ![s] = NoKeyType]
    /\ resp' = [resp EXCEPT ![s] = <<>>]
    /\ res' = [res EXCEPT ![s] = "None"]
    /\ before' = [before EXCEPT ![s] = [k \in Keys |-> NoValue]]
    /\ wrote' = [wrote EXCEPT ![s] = FALSE]
    /\ UNCHANGED <<store, parserVars, driverVars, clientVars>>

-----------------------------------------------------------------------------
(* Request frames as a client writes them.                                 *)

FooBytes == <<102, 111, 111>>

\* the payloads of the model: "foo" repeated, cut to every length, and one newline
Payload(len) == [i \in 1..len |-> FooBytes[((i - 1) % 3) + 1]]

ArgSet == {Payload(len) : len \in 0..MaxLen} \cup {<<10>>}

\* opcode bytes of the model: Increment, Stats, and two that are no command
OpBytes == {0, 13, 77, 200}

HasArgs(op) == CommandIdTryFrom(op) \notin {"Invalid", "Stats"}

Msgs ==
    {[op |-> op, args |-> a, nl |-> FALSE] :
        op \in {o \in OpBytes : HasArgs(o)},
        a \in UNION {[1..n -> ArgSet] : n \in 0..MaxArgs}}
    \cup {[op |-> op, args |-> <<>>, nl |-> nl] :
        op \in {o \in OpBytes : ~HasArgs(o)}, nl \in BOOLEAN}

\* 4 big-endian length bytes of an argument shorter than 256 bytes
LenBytes(arg) == <<0, 0, 0, Len(arg)>>

RECURSIVE EncodeArgs(_)
EncodeArgs(args) ==
    IF args = <<>> THEN <<>>
    ELSE LenBytes(Head(args)) \o Head(args) \o EncodeArgs(Tail(args))

\* opcode, count and arguments; a command without arguments is its opcode alone
FrameBytes(m) ==
    IF HasArgs(m.op) THEN <<m.op, Len(m.args)>> \o EncodeArgs(m.args) ELSE <<m.op>>

\* what goes on the transport: the frame, and the newline when the client adds it
Wire(m) == FrameBytes(m) \o (IF m.nl THEN <<10>> ELSE <<>>)

-----------------------------------------------------------------------------
(* One Context fed the way a connection feeds it: bytes arrive in parts,   *)
(* feed runs on everything received so far, and after a request the        *)
(* argument vectors go back through reset and the input is cleared.        *)

NoCall == [tag |-> "NoCall", req |-> NoRequest, err |-> "None", entry |-> NewContext]

Result(r) == [tag |-> r.tag, req |-> r.req, err |-> r.err, entry |-> r.entry]

\* no frame is being sent
NoMsg == [op |-> -1, args |-> <<>>, nl |-> FALSE]

\* a new connection: empty input, Context::new()
ParserInit ==
    /\ msg = NoMsg
    /\ input = <<>>
    /\ ctx = NewContext
    /\ last = NoCall
    /\ got = NoRequest
    /\ emitted = 0
    /\ refeeds = 0
    /\ prev = "None"

\* what handle_socket_inner holds when it enters its loop, and the transport:
\* lines are the frames the peer has written and wire what of them the driver has
\* not read; parsed are the requests feed has returned and out the responses
\* written, both in order
NewConn ==
    [wire |-> <<>>, lines |-> <<>>,
     input |-> <<>>, ctx |-> NewContext, status |-> "reading", req |-> NoRequest,
     parsed |-> <<>>, out |-> <<>>]

ConnInit == conn = [s \in Sessions |-> NewConn]

\* tasks that share one ServerBackend
Tasks == {1, 2}

\* a connected ServerBackend and a server whose key holds n: sock is what the
\* backend has written and the server has not read, stream what the server has
\* written and the backend has not read; of each task, where it is in its call,
\* the integers its calls returned, and the integers the server encoded for its
\* requests
NewClient(n) ==
    [counter |-> n, sock |-> <<>>, stream |-> <<>>, calls |-> 0,
     task |-> [t \in Tasks |-> [pc |-> "idle", got |-> <<>>, expect |-> <<>>]]]

ClientInit == client = NewClient(0)

Init == ParserInit /\ StoreInit /\ ConnInit /\ ClientInit

\* the client starts to send a frame
Send ==
    /\ msg = NoMsg
    /\ msg' \in Msgs
    /\ UNCHANGED <<input, ctx, last, got, emitted, refeeds, prev>>
    /\ UNCHANGED <<storeVars, driverVars, clientVars>>

\* k more bytes arrive and feed is called on the accumulated input
Receive(k) ==
    /\ msg # NoMsg
    /\ last.tag # "Err"
    /\ k >= 1
    /\ Len(input) + k <= Len(Wire(msg))
    /\ LET buf == SubSeq(Wire(msg), 1, Len(input) + k)
           r == Feed(ctx, buf)
       IN  /\ input' = buf
           /\ ctx' = r.ctx
           /\ last' = Result(r)
           /\ got' = IF r.tag = "Some" THEN r.req ELSE got
           /\ emitted' = IF r.tag = "Some" THEN emitted + 1 ELSE emitted
    /\ refeeds' = 0
    /\ UNCHANGED <<msg, prev>>
    /\ UNCHANGED <<storeVars, driverVars, clientVars>>

\* feed is called again although nothing arrived
Refeed ==
    /\ last.tag = "None"
    /\ refeeds < MaxRefeed
    /\ LET r == Feed(ctx, input)
       IN  /\ ctx' = r.ctx
           /\ last' = Result(r)
           /\ got' = IF r.tag = "Some" THEN r.req ELSE got
           /\ emitted' = IF r.tag = "Some" THEN emitted + 1 ELSE emitted
    /\ refeeds' = refeeds + 1
    /\ UNCHANGED <<msg, input, prev>>
    /\ UNCHANGED <<storeVars, driverVars, clientVars>>

\* after a request: reset with its arguments when it has any, and clear the input
Recycle ==
    /\ last.tag = "Some"
    /\ ctx' = IF last.req.args.some THEN Reset(ctx, last.req.args.v) ELSE ctx
    /\ input' = <<>>
    /\ msg' = NoMsg
    /\ prev' = IF last.req.args.some THEN "reset" ELSE "simple"
    /\ last' = NoCall
    /\ got' = NoRequest
    /\ emitted' = 0
    /\ refeeds' = 0
    /\ UNCHANGED <<storeVars, driverVars, clientVars>>

Next ==
    \/ Send
    \/ \E k \in 1..MaxPart : Receive(k)
    \/ Receive(Len(Wire(msg)) - Len(input))
    \/ Refeed
    \/ Recycle

Spec == Init /\ [][Next]_vars

-----------------------------------------------------------------------------
(* Properties of the parser.                                               *)

\* the result of feeding a whole frame in one call to a fresh Context
OneShot(m) == Feed(NewContext, FrameBytes(m))

\* the frame being sent is a request: its opcode decodes to a command
WellFormed(m) == m # NoMsg /\ CommandIdTryFrom(m.op) # "Invalid"

\* C1: the i-th argument of the emitted Request is exactly the payload bytes that
\* follow the i-th length prefix of the frame, without the prefix.
C1_ArgsArePayloads ==
    (msg # NoMsg /\ got # NoRequest /\ got.args.some) =>
        /\ Len(got.args.v) = Len(msg.args)
        /\ \A i \in 1..Len(got.args.v) : got.args.v[i] = msg.args[i]

\* C2: feed returns a Request only when the buffer holds the whole frame; on a
\* strict prefix of the frame it returns Ok(None).
C2_OnlyWholeFrame ==
    (msg # NoMsg /\ last.tag = "Some") => Len(input) >= Len(FrameBytes(msg))

\* C3: once every part of a frame has been appended and fed to a fresh Context,
\* exactly one Request has been returned, and it is the Request that feeding the
\* whole frame in one call returns.
C3_Resumable ==
    (WellFormed(msg) /\ prev = "None" /\ input = FrameBytes(msg)) =>
        /\ emitted = 1
        /\ OneShot(msg).tag = "Some"
        /\ got = OneShot(msg).req

\* C4: a frame with count byte 0 yields a Request with an empty argument list as
\* soon as opcode and count are in the buffer, and every emitted Request carries
\* exactly the N arguments its count byte announces.
C4_EmittedAtCount ==
    (msg # NoMsg /\ HasArgs(msg.op)) =>
        /\ (Len(msg.args) = 0 /\ Len(input) >= 2) =>
               got = Request(CommandIdTryFrom(msg.op), NoKeyType, Some(<<>>))
        /\ (got # NoRequest) => (got.args.some /\ Len(got.args.v) = Len(msg.args))

\* C5: a declared key type reaches the dispatcher: whenever the parser waits for
\* an opcode, every key type has an opcode byte with bit 7 set from which feed
\* records that key type for a command that takes arguments.
C5_KeyTypeReachesDispatcher ==
    (ctx.stage.name = "Init" /\ ctx.idx = 0) =>
        \A k \in KeyTypes : \E b \in 128..255 :
            LET r == Feed(ctx, <<b>>)
            IN  /\ r.tag = "None"
                /\ r.ctx.stage.name = "Kind"
                /\ r.ctx.stage.key_type = k

\* C6: when feed returns Ok(None) the stage that found too few bytes has changed
\* nothing (the context is as it was on entry to that stage), and feeding the same
\* buffer again returns Ok(None) and leaves the same context.
C6_IncompleteChangesNothing ==
    last.tag = "None" =>
        /\ ctx = last.entry
        /\ Feed(ctx, input).tag = "None"
        /\ Feed(ctx, input).ctx = ctx

C6_Witness ==
    /\ last.tag = "None"
    /\ refeeds = 1
    /\ ctx.stage.name = "ArgumentParsing"
    /\ ctx.buf_args.some
    /\ Len(ctx.buf_args.v) = 1
    /\ Len(input) > ctx.idx

\* C7 as stated: every opcode byte that decodes to no CommandId makes feed return
\* Err(CommandIdInvalid).
C7_InvalidCommandIsCommandIdInvalid ==
    (msg # NoMsg /\ Len(input) >= 1 /\ CommandIdTryFrom(msg.op) = "Invalid") =>
        (last.tag = "Err" /\ last.err = "CommandIdInvalid" /\ emitted = 0)

\* C7 amended: an opcode byte with bit 7 clear that decodes to no CommandId makes
\* feed return Err(CommandIdInvalid); an opcode byte with bit 7 set whose key-type
\* bits decode to no KeyType makes feed return Err(KeyTypeInvalid), also when the
\* byte decodes to no CommandId; no Request is emitted for such a byte.
C7_ParseErrors ==
    (msg # NoMsg /\ Len(input) >= 1) =>
        /\ (msg.op < 128 /\ CommandIdTryFrom(msg.op) = "Invalid") =>
               (last.tag = "Err" /\ last.err = "CommandIdInvalid" /\ emitted = 0)
        /\ (msg.op >= 128 /\ KeyTypeTryFrom(msg.op \div 2) = "Invalid") =>
               (last.tag = "Err" /\ last.err = "KeyTypeInvalid" /\ emitted = 0)

C7_Witness ==
    /\ msg # NoMsg
    /\ msg.op >= 128
    /\ CommandIdTryFrom(msg.op) = "Invalid"
    /\ last.tag = "Err"
    /\ last.err = "KeyTypeInvalid"

\* C8: a simple command is emitted from its opcode byte alone as
\* Request{kind, args = None, key_type = None}; the parser is then in stage Init
\* with idx 0, and the request that follows without a reset call parses as on a
\* fresh Context.
C8_SimpleCommand ==
    /\ (last.tag = "Some" /\ IsSimple(last.req.kind)) =>
           /\ last.req = Request(last.req.kind, NoKeyType, NoArgs)
           /\ ctx.stage = StageInitValue
           /\ ctx.idx = 0
    /\ (msg # NoMsg /\ IsSimple(CommandIdTryFrom(msg.op)) /\ Len(input) >= 1) =>
           (emitted >= 1 /\ got.kind = CommandIdTryFrom(msg.op))
    /\ (msg # NoMsg /\ prev = "simple" /\ got # NoRequest) => got = OneShot(msg).req

C8_Witness ==
    /\ msg # NoMsg
    /\ prev = "simple"
    /\ last.tag = "Some"
    /\ got.args.some
    /\ Len(got.args.v) = 2

\* the state reset leaves
C9_AfterReset ==
    /\ (prev = "reset" /\ last.tag = "NoCall") =>
           /\ ctx.stage = StageInitValue
           /\ ctx.idx = 0
           /\ ctx.buf_args = Some(<<>>)
           /\ \A i \in 1..Len(ctx.argument_pool) : ctx.argument_pool[i] = <<>>
    /\ (msg # NoMsg /\ prev = "reset" /\ got # NoRequest) => got = OneShot(msg).req

\* the step reset takes: one emptied vector more in the pool per argument
C9_ResetStep ==
    (last.tag = "Some" /\ last.req.args.some /\ last'.tag = "NoCall") =>
        ctx'.argument_pool =
            ctx.argument_pool \o [i \in 1..Len(last.req.args.v) |-> <<>>]

\* C9: after reset(args) the stage is Init, idx is 0, the argument buffer is empty
\* and every vector of args is in the pool, emptied; the request fed afterwards
\* parses as on a fresh Context, with no byte of the previous request in it.
C9_Reset == []C9_AfterReset /\ [][C9_ResetStep]_vars

C9_Witness ==
    /\ msg # NoMsg
    /\ prev = "reset"
    /\ last.tag = "Some"
    /\ got.args.some
    /\ Len(got.args.v) = 2
    /\ Len(got.args.v[2]) >= 3

-----------------------------------------------------------------------------
(* Set commands of one session, one after another, on a store that keeps   *)
(* what the earlier ones left.                                             *)

\* most arguments after the key
MaxSetArgs == 4

\* payloads of the argument after the key: false, true, the integer (and the
\* float bits of) 2, and a byte that is neither a boolean nor UTF-8
SetArgSet == {<<0>>, <<1>>, <<0, 0, 0, 0, 0, 0, 0, 2>>, <<255>>}

\* payloads of the arguments after that one
SetMoreArgSet == {<<1>>, <<0, 0, 0, 0, 0, 0, 0, 2>>}

\* the argument lists after the key
SetArgLists ==
    {<<>>} \cup
    {<<a>> \o more :
        a \in SetArgSet,
        more \in UNION {[1..n -> SetMoreArgSet] : n \in 0..(MaxSetArgs - 1)}}

DeclaredKeyTypes == KeyTypes \cup {NoKeyType}

SetRequests ==
    {Request("Set", k, Some(<<key>> \o rest)) :
        k \in DeclaredKeyTypes, key \in {KeyFoo}, rest \in SetArgLists}
    \cup {Request("Set", k, a) : k \in DeclaredKeyTypes, a \in {Some(<<>>), NoArgs}}

SetNext ==
    \/ \E req \in SetRequests : SetDispatch(1, req)
    \/ SetRemove(1)
    \/ SetInsert(1)
    \/ Finish(1)

SetSpec == Init /\ [][SetNext]_vars

\* what a value of kind K holds when it equals the payload in rest, the arguments
\* after the key
C10_Holds(K, rest, v) ==
    CASE K = "Boolean" -> (rest[1] = <<1>> /\ v = TRUE) \/ (rest[1] = <<0>> /\ v = FALSE)
      [] K = "Bytes" -> v = rest[1]
      [] K = "Float" -> v = rest[1]
      [] K = "Integer" -> I64ToBe(v) = rest[1]
      [] K = "String" -> v = rest[1]
      [] K = "List" -> v = rest
      [] K = "Set" -> v = {rest[i] : i \in 1..Len(rest)}
      [] K = "Map" ->
            /\ Len(rest) % 2 = 0
            /\ \A i, j \in 1..Len(v) : v[i][1] = v[j][1] => i = j
            /\ \A i \in 1..Len(v) : \E j \in 1..(Len(rest) \div 2) : v[i][1] = rest[2 * j - 1]
            /\ \A j \in 1..(Len(rest) \div 2) :
                   (\A l \in (j + 1)..(Len(rest) \div 2) : rest[2 * l - 1] # rest[2 * j - 1])
                       => \E i \in 1..Len(v) : v[i] = <<rest[2 * j - 1], rest[2 * j]>>

\* the encoding of the payload
C10_Encoding(K, rest, v) ==
    CASE K \in {"Boolean", "Float", "Integer"} -> rest[1] \o <<10>>
      [] K \in {"Bytes", "String"} -> U32ToBe(Len(rest[1])) \o rest[1] \o <<10>>
      [] K = "List" -> U32ToBe(Len(rest)) \o ConcatPrefixed(rest) \o <<10>>
      [] K = "Set" -> WriteSet(<<>>, v)
      [] K = "Map" -> WriteMap(<<>>, v)

\* C10: a successful Set(k, K, P) leaves under k a value of kind K equal to P (one
\* argument for scalars, key/value pairs for Map, all remaining arguments in order
\* with duplicates for List, the distinct remaining arguments for Set), whatever
\* the key held before, and the response written is the encoding of P.
C10_SetRoundTrip ==
    \A s \in Sessions :
        (pc[s] = "done" /\ res[s] = "Ok" /\ sreq[s].key_type # NoKeyType) =>
            LET K == sreq[s].key_type
                key == sreq[s].args.v[1]
                rest == Tail(sreq[s].args.v)
            IN  /\ store[key].kind = K
                /\ C10_Holds(K, rest, store[key].v)
                /\ resp[s] = C10_Encoding(K, rest, store[key].v)

\* a list with a duplicate has replaced an integer
C10_Witness ==
    /\ pc[1] = "done"
    /\ res[1] = "Ok"
    /\ sreq[1].key_type = "List"
    /\ before[1][KeyFoo].kind = "Integer"
    /\ store[KeyFoo].kind = "List"
    /\ Len(store[KeyFoo].v) = 3
    /\ store[KeyFoo].v[1] = store[KeyFoo].v[3]

-----------------------------------------------------------------------------
(* Further properties of Set.                                              *)

\* equality of stored values, kind first
SameValue(a, b) == a.kind = b.kind /\ a.v = b.v

SameStore(a, b) == \A k \in Keys : SameValue(a[k], b[k])

\* C11: Set stores as the declared key_type when there is one, otherwise as the
\* kind of the value stored under the key when the command began, otherwise as
\* Bytes; a successful Set leaves a value of that kind.
C11_SetKind ==
    \A s \in Sessions :
        (sreq[s].kind = "Set" /\ (pc[s] \in {"remove", "insert"} \/ res[s] = "Ok")) =>
            LET declared == sreq[s].key_type
                key == sreq[s].args.v[1]
                stored == before[s][key].kind
            IN  /\ declared # NoKeyType => kt[s] = declared
                /\ (declared = NoKeyType /\ stored # "None") => kt[s] = stored
                /\ (declared = NoKeyType /\ stored = "None") => kt[s] = "Bytes"
                /\ res[s] = "Ok" => store[key].kind = kt[s]

\* an undeclared Set has kept the list kind of the key
C11_Witness ==
    /\ pc[1] = "done"
    /\ res[1] = "Ok"
    /\ sreq[1].kind = "Set"
    /\ sreq[1].key_type = NoKeyType
    /\ before[1][KeyFoo].kind = "List"
    /\ store[KeyFoo].kind = "List"
    /\ Len(store[KeyFoo].v) = 2

\* C12: a Set without arg(0) returns KeyUnspecified and a Set with a key and no
\* further argument returns ArgumentRetrieval, whatever key type it declares, and
\* the store is as it was before the command.
C12_SetArgumentErrors ==
    \A s \in Sessions :
        (sreq[s].kind = "Set" /\ pc[s] # "idle") =>
            /\ (~sreq[s].args.some \/ Len(sreq[s].args.v) = 0) =>
                   (pc[s] = "done" /\ res[s] = "KeyUnspecified" /\ SameStore(store, before[s]))
            /\ (sreq[s].args.some /\ Len(sreq[s].args.v) = 1) =>
                   (pc[s] = "done" /\ res[s] = "ArgumentRetrieval" /\ SameStore(store, before[s]))

\* a Set of kind Set with the key alone has left the stored map alone
C12_Witness ==
    /\ pc[1] = "done"
    /\ res[1] = "ArgumentRetrieval"
    /\ sreq[1].key_type = "Set"
    /\ Len(sreq[1].args.v) = 1
    /\ before[1][KeyFoo].kind = "Map"
    /\ store[KeyFoo].kind = "Map"

-----------------------------------------------------------------------------
(* Is, Type and Append.  Each command checks its request first and then    *)
(* goes to the store once: Is and Type read, Append holds the write guard  *)
(* of typed_key over its whole block.                                      *)

\* State::key_ref
StateKeyRef(st, key) == IF st[key].kind = "None" THEN NoArg ELSE Some(st[key])

\* State::typed_key::<K>: absent when the key is missing or holds another kind
StateTypedKey(st, key, K) == IF st[key].kind = K THEN Some(st[key]) ELSE NoArg

\* a command begins: req is taken, r is what its checks gave
Begin(s, req, r) ==
    /\ pc[s] = "idle"
    /\ sreq' = [sreq EXCEPT ![s] = req]
    /\ before' = [before EXCEPT ![s] = store]
    /\ resp' = [resp EXCEPT ![s] = <<>>]
    /\ kt' = [kt EXCEPT ![s] = NoKeyType]
    /\ IF r = "Ok"
           THEN /\ res' = [res EXCEPT ![s] = "None"]
                /\ pc' = [pc EXCEPT ![s] = "run"]
           ELSE /\ res' = [res EXCEPT ![s] = r]
                /\ pc' = [pc EXCEPT ![s] = "done"]
    /\ wrote' = [wrote EXCEPT ![s] = FALSE]
    /\ UNCHANGED <<store, parserVars, driverVars, clientVars>>

\* an Is that is content with one matching key
IsAny(st, K, keys) ==
    \E i \in 1..Len(keys) :
        StateKeyRef(st, keys[i]).some /\ StateKeyRef(st, keys[i]).v.kind = K

\* args.iter().all(..): every key is there and holds the kind
IsAll(st, K, keys) ==
    \A i \in 1..Len(keys) :
        StateKeyRef(st, keys[i]).some /\ StateKeyRef(st, keys[i]).v.kind = K

\* an Is that looks at the arguments first
IsCheckArgsFirst(req) ==
    IF ~ReqArgsFrom(req, 0).some THEN "ArgumentRetrieval"
    ELSE IF req.key_type = NoKeyType THEN "KeyTypeRequired"
    ELSE "Ok"

\* the checks of Is::dispatch
IsCheck(req) ==
    IF req.key_type = NoKeyType THEN "KeyTypeRequired"
    ELSE IF ~ReqArgsFrom(req, 0).some THEN "ArgumentRetrieval"
    ELSE "Ok"

IsDispatch(s, req) == req.kind = "Is" /\ Begin(s, req, IsCheck(req))

\* the keys are looked up and the answer is written
IsRun(s) ==
    /\ pc[s] = "run"
    /\ sreq[s].kind = "Is"
    /\ resp' = [resp EXCEPT ![s] =
                   WriteBool(resp[s], IsAll(store, sreq[s].key_type, ReqArgsFrom(sreq[s], 0).v))]
    /\ res' = [res EXCEPT ![s] = "Ok"]
    /\ pc' = [pc EXCEPT ![s] = "done"]
    /\ UNCHANGED <<store, sreq, kt, before, wrote, parserVars, driverVars, clientVars>>

\* a Type that looks at the key type first
TypeCheckKeyTypeFirst(req) ==
    IF req.key_type # NoKeyType THEN "KeyTypeUnexpected"
    ELSE IF ~ReqKey(req).some THEN "KeyUnspecified"
    ELSE "Ok"

\* the checks of Type::dispatch
TypeCheck(req) ==
    IF ~ReqKey(req).some THEN "KeyUnspecified"
    ELSE IF req.key_type # NoKeyType THEN "KeyTypeUnexpected"
    ELSE "Ok"

TypeDispatch(s, req) == req.kind = "Type" /\ Begin(s, req, TypeCheck(req))

\* key_ref and write_int(kind as u8 as i64)
TypeRun(s) ==
    /\ pc[s] = "run"
    /\ sreq[s].kind = "Type"
    /\ LET value == StateKeyRef(store, ReqKey(sreq[s]).v)
       IN  IF ~value.some
               THEN /\ res' = [res EXCEPT ![s] = "KeyNonexistent"]
                    /\ UNCHANGED resp
               ELSE /\ resp' = [resp EXCEPT ![s] = WriteInt(resp[s], KeyTypeId(value.v.kind))]
                    /\ res' = [res EXCEPT ![s] = "Ok"]
    /\ pc' = [pc EXCEPT ![s] = "done"]
    /\ UNCHANGED <<store, sreq, kt, before, wrote, parserVars, driverVars, clientVars>>

\* an Append that takes every unsupported kind for Bytes
AppendKindLenient(declared) ==
    CASE declared \in {"List", "String"} -> declared
      [] OTHER -> "Bytes"

\* the arm of the match on req.key_type()
AppendKind(declared) ==
    CASE declared \in {"Bytes", NoKeyType} -> "Bytes"
      [] declared = "List" -> "List"
      [] declared = "String" -> "String"
      [] OTHER -> "Unsupported"

\* the checks of Append::dispatch, the arm Some(_) among them
AppendCheck(req) ==
    IF ~ReqArg(req, 0).some THEN "KeyUnspecified"
    ELSE IF ~ReqArgsFrom(req, 1).some THEN "ArgumentRetrieval"
    ELSE IF AppendKind(req.key_type) = "Unsupported" THEN "KeyTypeDifferent"
    ELSE "Ok"

RECURSIVE Concat(_)
Concat(items) == IF items = <<>> THEN <<>> ELSE Head(items) \o Concat(Tail(items))

\* an Append to a string that takes every argument
AppendBlockUnchecked(K, old, args) ==
    CASE K = "Bytes" -> old \o Concat(args)
      [] K = "List" -> old \o args
      [] K = "String" -> old \o Concat(args)

\* the arguments up to the first that is not valid UTF-8
RECURSIVE ValidPrefix(_)
ValidPrefix(args) ==
    IF args = <<>> \/ ~Utf8Valid(Head(args)) THEN <<>>
    ELSE <<Head(args)>> \o ValidPrefix(Tail(args))

\* an Append to a string that stops at the first argument that is not valid UTF-8
AppendBlockStopAtInvalid(K, old, args) ==
    CASE K = "Bytes" -> old \o Concat(args)
      [] K = "List" -> old \o args
      [] K = "String" -> old \o Concat(ValidPrefix(args))

\* the value after the loop over the arguments
AppendBlock(K, old, args) ==
    CASE K = "Bytes" -> old \o Concat(args)
      [] K = "List" -> old \o args
      [] K = "String" -> old \o Concat(SelectSeq(args, Utf8Valid))

\* the response an arm of Append writes
AppendWrite(K, buf, v) ==
    CASE K = "Bytes" -> WriteBytes(buf, v)
      [] K = "List" -> WriteList(buf, v)
      [] K = "String" -> WriteStr(buf, v)

\* an Append that extends the value it saw when it began
AppendBaseStale(s) ==
    LET key == ReqKey(sreq[s]).v
        K == AppendKind(sreq[s].key_type)
    IN  IF before[s][key].kind = K THEN before[s][key] ELSE store[key]

\* the value behind the guard of typed_key
AppendBase(s) ==
    StateTypedKey(store, ReqKey(sreq[s]).v, AppendKind(sreq[s].key_type)).v

\* longest stored byte string or list an Append is begun on
MaxStored == 3

\* the value does not grow past the bound
AppendFits(req) ==
    (ReqKey(req).some /\ ReqArgsFrom(req, 1).some
        /\ store[ReqKey(req).v].kind \in {"Bytes", "List", "String"})
    => Len(store[ReqKey(req).v].v) + Len(ReqArgsFrom(req, 1).v) <= MaxStored

AppendDispatch(s, req) ==
    /\ pc[s] = "idle"
    /\ req.kind = "Append"
    /\ AppendFits(req)
    /\ Begin(s, req, AppendCheck(req))

\* an Append that inserts an empty value under a key that is absent
AppendRunCreating(s) ==
    /\ pc[s] = "run"
    /\ sreq[s].kind = "Append"
    /\ LET key == ReqKey(sreq[s]).v
           K == AppendKind(sreq[s].key_type)
           st == StateKeyOrInsertWith(store, key, K)
       IN  IF ~StateTypedKey(st, key, K).some
               THEN /\ res' = [res EXCEPT ![s] = "KeyTypeDifferent"]
                    /\ UNCHANGED <<store, resp, wrote>>
               ELSE LET v == AppendBlock(K, st[key].v, ReqArgsFrom(sreq[s], 1).v)
                    IN  /\ store' = [store EXCEPT ![key] = Value(K, v)]
                        /\ resp' = [resp EXCEPT ![s] = AppendWrite(K, resp[s], v)]
                        /\ res' = [res EXCEPT ![s] = "Ok"]
                        /\ wrote' = [wrote EXCEPT ![s] = TRUE]
    /\ pc' = [pc EXCEPT ![s] = "done"]
    /\ UNCHANGED <<sreq, kt, before, parserVars, driverVars, clientVars>>

\* typed_key and, under its guard, the loop over the arguments and the response
AppendRun(s) ==
    /\ pc[s] = "run"
    /\ sreq[s].kind = "Append"
    /\ LET key == ReqKey(sreq[s]).v
           K == AppendKind(sreq[s].key_type)
       IN  IF ~StateTypedKey(store, key, K).some
               THEN /\ res' = [res EXCEPT ![s] = "KeyTypeDifferent"]
                    /\ UNCHANGED <<store, resp, wrote>>
               ELSE LET v == AppendBlock(K, AppendBase(s).v, ReqArgsFrom(sreq[s], 1).v)
                    IN  /\ store' = [store EXCEPT ![key] = Value(K, v)]
                        /\ resp' = [resp EXCEPT ![s] = AppendWrite(K, resp[s], v)]
                        /\ res' = [res EXCEPT ![s] = "Ok"]
                        /\ wrote' = [wrote EXCEPT ![s] = TRUE]
    /\ pc' = [pc EXCEPT ![s] = "done"]
    /\ UNCHANGED <<sreq, kt, before, parserVars, driverVars, clientVars>>

-----------------------------------------------------------------------------
(* Commands of one session, one after another, on two keys.                *)

\* most arguments of an Append after the key
MaxAppendArgs == 2

\* Sets that put a string, an integer, a list or bytes under a key
CmdSetRequests ==
    {Request("Set", "String", Some(<<key, <<1>>>>)) : key \in Keys}
    \cup {Request("Set", "Integer", Some(<<key, <<0, 0, 0, 0, 0, 0, 0, 2>>>>)) : key \in Keys}
    \cup {Request("Set", "List", Some(<<key, <<1>>>>)) : key \in Keys}
    \cup {Request("Set", NoKeyType, Some(<<key, <<255>>>>)) : key \in Keys}

IsRequests ==
    {Request("Is", k, a) :
        k \in {NoKeyType, "String", "Integer"},
        a \in {NoArgs} \cup {Some(ks) : ks \in UNION {[1..n -> Keys] : n \in 1..2}}}

TypeRequests ==
    {Request("Type", k, a) :
        k \in {NoKeyType, "String"},
        a \in {NoArgs} \cup {Some(<<key>>) : key \in Keys}
                \cup {Some(<<key, <<1>>>>) : key \in Keys}}

\* arguments of an Append: a character, and a byte that is not UTF-8
AppendArgSet == {<<1>>, <<255>>}

AppendRequests ==
    {Request("Append", k, a) :
        k \in DeclaredKeyTypes,
        a \in {NoArgs} \cup
             {Some(<<key>> \o more) :
                 key \in Keys,
                 more \in UNION {[1..n -> AppendArgSet] : n \in 0..MaxAppendArgs}}}

CmdNext ==
    \/ \E req \in CmdSetRequests : SetDispatch(1, req)
    \/ SetRemove(1)
    \/ SetInsert(1)
    \/ \E req \in IsRequests : IsDispatch(1, req)
    \/ IsRun(1)
    \/ \E req \in TypeRequests : TypeDispatch(1, req)
    \/ TypeRun(1)
    \/ \E req \in AppendRequests : AppendDispatch(1, req)
    \/ AppendRun(1)
    \/ Finish(1)

CmdSpec == Init /\ [][CmdNext]_vars

-----------------------------------------------------------------------------
(* Commands of two sessions on one key, their steps interleaved.           *)

RaceRequests ==
    {Request("Set", "Integer", Some(<<KeyFoo, <<0, 0, 0, 0, 0, 0, 0, 2>>>>)),
     Request("Set", "List", Some(<<KeyFoo, <<1>>>>)),
     Request("Type", NoKeyType, Some(<<KeyFoo>>)),
     Request("Is", "Integer", Some(<<KeyFoo>>)),
     Request("Append", "List", Some(<<KeyFoo, <<1>>, <<0>>>>)),
     Request("Append", "List", Some(<<KeyFoo, <<255>>, <<1>>>>))}

RaceNext ==
    \E s \in Sessions :
        \/ \E req \in {r \in RaceRequests : r.kind = "Set"} : SetDispatch(s, req)
        \/ SetRemove(s)
        \/ SetInsert(s)
        \/ \E req \in RaceRequests : IsDispatch(s, req)
        \/ IsRun(s)
        \/ \E req \in RaceRequests : TypeDispatch(s, req)
        \/ TypeRun(s)
        \/ \E req \in RaceRequests : AppendDispatch(s, req)
        \/ AppendRun(s)
        \/ Finish(s)

RaceSpec == Init /\ [][RaceNext]_vars

-----------------------------------------------------------------------------
(* Properties of commands that share a key.                                *)

\* session s is inside a Set on key that held a value when the Set began
SetRunningOn(s, key) ==
    /\ sreq[s].kind = "Set"
    /\ pc[s] \in {"remove", "insert"}
    /\ ReqKey(sreq[s]).v = key
    /\ before[s][key].kind # "None"

\* session s goes to the store for key in this step, as Is, Type or Append
ReadsKey(s, key) ==
    /\ pc[s] = "run"
    /\ pc'[s] = "done"
    /\ ReqArg(sreq[s], 0).v = key

\* C13: while a Set on a key that holds a value is running in one session, the
\* step in which another session's Is, Type or Append goes to the store for that
\* key finds a value under it, never the key absent.
C13_NoPartialSet ==
    [][\A s1, s2 \in Sessions : \A key \in Keys :
          (s1 # s2 /\ SetRunningOn(s1, key) /\ ReadsKey(s2, key))
              => store[key].kind # "None"]_vars

-----------------------------------------------------------------------------
(* Properties of Is and Type.                                              *)

\* C14: Is with a declared key type and keys k1..kn returns Ok and writes true
\* when every key is in the store with that kind and false otherwise, and leaves
\* the store unchanged.
C14_IsAnswer ==
    \A s \in Sessions :
        (pc[s] = "done" /\ sreq[s].kind = "Is"
            /\ sreq[s].key_type # NoKeyType /\ sreq[s].args.some) =>
            LET keys == sreq[s].args.v
                every == \A i \in 1..Len(keys) : store[keys[i]].kind = sreq[s].key_type
            IN  /\ res[s] = "Ok"
                /\ resp[s] = <<IF every THEN 1 ELSE 0, 10>>
                /\ SameStore(store, before[s])

\* Is(String, foo, bar) has answered false: foo is a string and bar is an integer
C14_Witness ==
    /\ pc[1] = "done"
    /\ sreq[1].kind = "Is"
    /\ sreq[1].key_type = "String"
    /\ sreq[1].args.v = <<KeyFoo, KeyBar>>
    /\ store[KeyFoo].kind = "String"
    /\ store[KeyBar].kind = "Integer"
    /\ resp[1] = <<0, 10>>

\* C15: Is without a declared key type returns KeyTypeRequired, with or without
\* arguments; Is with a key type and no arguments returns ArgumentRetrieval; in
\* both cases the response buffer stays empty.
C15_IsErrors ==
    \A s \in Sessions :
        (pc[s] = "done" /\ sreq[s].kind = "Is") =>
            /\ sreq[s].key_type = NoKeyType =>
                   (res[s] = "KeyTypeRequired" /\ resp[s] = <<>>)
            /\ (sreq[s].key_type # NoKeyType /\ ~sreq[s].args.some) =>
                   (res[s] = "ArgumentRetrieval" /\ resp[s] = <<>>)

\* an Is with neither key type nor arguments has returned KeyTypeRequired
C15_Witness ==
    /\ pc[1] = "done"
    /\ sreq[1].kind = "Is"
    /\ sreq[1].key_type = NoKeyType
    /\ ~sreq[1].args.some
    /\ res[1] = "KeyTypeRequired"

\* C16: Type returns KeyUnspecified without arg(0), else KeyTypeUnexpected with a
\* declared key type, else KeyNonexistent for a key that is not in the store, and
\* else writes the id of the stored kind as an integer, whatever further
\* arguments there are; the store is unchanged.
C16_TypeOrder ==
    \A s \in Sessions :
        (pc[s] = "done" /\ sreq[s].kind = "Type") =>
            LET hasKey == sreq[s].args.some /\ Len(sreq[s].args.v) >= 1
                declared == sreq[s].key_type # NoKeyType
            IN  /\ ~hasKey => res[s] = "KeyUnspecified"
                /\ (hasKey /\ declared) => res[s] = "KeyTypeUnexpected"
                /\ (hasKey /\ ~declared /\ store[sreq[s].args.v[1]].kind = "None") =>
                       res[s] = "KeyNonexistent"
                /\ (hasKey /\ ~declared /\ store[sreq[s].args.v[1]].kind # "None") =>
                       /\ res[s] = "Ok"
                       /\ resp[s] = <<0, 0, 0, 0, 0, 0, 0,
                                      KeyTypeId(store[sreq[s].args.v[1]].kind), 10>>
                /\ SameStore(store, before[s])

\* Type(foo, 1) on a list has written the id of List
C16_Witness ==
    /\ pc[1] = "done"
    /\ sreq[1].kind = "Type"
    /\ sreq[1].args.v = <<KeyFoo, <<1>>>>
    /\ store[KeyFoo].kind = "List"
    /\ res[1] = "Ok"
    /\ resp[1] = <<0, 0, 0, 0, 0, 0, 0, 4, 10>>

-----------------------------------------------------------------------------
(* Properties of Append.                                                   *)

\* session s is through with an Append that named a key
AppendDone(s) ==
    /\ pc[s] = "done"
    /\ sreq[s].kind = "Append"
    /\ sreq[s].args.some
    /\ Len(sreq[s].args.v) >= 1

\* the encoding of a byte string, a string or a list
AppendEncoding(value) ==
    IF value.kind = "List"
        THEN U32ToBe(Len(value.v)) \o ConcatPrefixed(value.v) \o <<10>>
        ELSE U32ToBe(Len(value.v)) \o value.v \o <<10>>

\* C17: an Append with no declared key type acts on the kind of the stored value:
\* on a stored String or List it succeeds, the key holds the old value followed
\* by the arguments, and that value is written.
C17_UntypedAppend ==
    \A s \in Sessions :
        (AppendDone(s) /\ sreq[s].key_type = NoKeyType
            /\ before[s][sreq[s].args.v[1]].kind \in {"String", "List"}
            /\ \A i \in 2..Len(sreq[s].args.v) : Utf8Valid(sreq[s].args.v[i])) =>
            LET key == sreq[s].args.v[1]
                old == before[s][key]
                args == Tail(sreq[s].args.v)
            IN  /\ res[s] = "Ok"
                /\ store[key].kind = old.kind
                /\ store[key].v = old.v \o (IF old.kind = "List" THEN args ELSE Concat(args))
                /\ resp[s] = AppendEncoding(store[key])

\* the kinds Append has no arm for
AppendUnsupported == {"Boolean", "Float", "Integer", "Map", "Set"}

\* C18: an Append whose declared key type differs from the kind stored under the
\* key, or is a kind Append does not support, returns KeyTypeDifferent, writes no
\* response and leaves the store unchanged.
C18_AppendKindMismatch ==
    \A s \in Sessions :
        (AppendDone(s) /\ sreq[s].key_type # NoKeyType
            /\ \/ sreq[s].key_type \in AppendUnsupported
               \/ /\ before[s][sreq[s].args.v[1]].kind # "None"
                  /\ before[s][sreq[s].args.v[1]].kind # sreq[s].key_type) =>
            /\ res[s] = "KeyTypeDifferent"
            /\ resp[s] = <<>>
            /\ SameStore(store, before[s])

\* Append(key_type=List) on a stored integer has been refused
C18_Witness ==
    /\ AppendDone(1)
    /\ sreq[1].key_type = "List"
    /\ Len(sreq[1].args.v) = 2
    /\ before[1][KeyFoo].kind = "Integer"
    /\ store[KeyFoo].kind = "Integer"
    /\ store[KeyFoo].v = 2
    /\ res[1] = "KeyTypeDifferent"

\* what a successful Append leaves, given the arguments that count
AppendLeaves(s, args) ==
    LET key == sreq[s].args.v[1]
        old == before[s][key]
    IN  /\ store[key].kind = old.kind
        /\ store[key].v = old.v \o (IF old.kind = "List" THEN args ELSE Concat(args))
        /\ resp[s] = AppendEncoding(store[key])
        /\ \A k \in Keys \ {key} : SameValue(store[k], before[s][k])

\* C19 as stated: a successful Append leaves the previous value followed by all
\* its arguments in request order (Bytes and String concatenated, List one
\* element each) and writes the whole new value; other keys are unchanged.
C19_AppendAll ==
    \A s \in Sessions :
        (AppendDone(s) /\ res[s] = "Ok") => AppendLeaves(s, Tail(sreq[s].args.v))

\* the arguments of an Append that are valid UTF-8, in request order
RECURSIVE ValidOnly(_)
ValidOnly(args) ==
    IF args = <<>> THEN <<>>
    ELSE IF \E i \in 1..Len(Head(args)) : Head(args)[i] >= 128 THEN ValidOnly(Tail(args))
    ELSE <<Head(args)>> \o ValidOnly(Tail(args))

\* C19 amended: as C19, but an Append to a String takes only the arguments that
\* are valid UTF-8 and skips the others.
C19_AppendValid ==
    \A s \in Sessions :
        (AppendDone(s) /\ res[s] = "Ok") =>
            AppendLeaves(s, IF before[s][sreq[s].args.v[1]].kind = "String"
                                THEN ValidOnly(Tail(sreq[s].args.v))
                                ELSE Tail(sreq[s].args.v))

\* an Append to a string has taken one argument and skipped the other
C19_Witness ==
    /\ AppendDone(1)
    /\ res[1] = "Ok"
    /\ sreq[1].key_type = "String"
    /\ sreq[1].args.v = <<KeyFoo, <<255>>, <<1>>>>
    /\ before[1][KeyFoo].v = <<1>>
    /\ store[KeyFoo].v = <<1, 1>>
    /\ store[KeyBar].kind = "List"

\* the step in which session s holds the guard of its Append
AppendBlockStep(s) ==
    /\ sreq[s].kind = "Append"
    /\ pc[s] = "run"
    /\ res'[s] = "Ok"

\* C20: an Append applies all its arguments in one step, to the value the key
\* holds at that step, and writes the value that step leaves; no other step of the
\* Append changes the store.  Two Appends on one key therefore leave old ++ A ++ B
\* or old ++ B ++ A.
C20_AppendAtomic ==
    [][\A s \in Sessions :
          /\ AppendBlockStep(s) =>
                 LET key == sreq[s].args.v[1]
                 IN  /\ store'[key].v = store[key].v \o Tail(sreq[s].args.v)
                     /\ resp'[s] = AppendEncoding(store'[key])
          /\ (sreq'[s].kind = "Append" /\ pc[s] # pc'[s] /\ ~AppendBlockStep(s)) =>
                 SameStore(store', store)]_vars

\* two Appends that began on the same list are both through: one block follows
\* the other
C20_Witness ==
    /\ AppendDone(1) /\ AppendDone(2)
    /\ res[1] = "Ok" /\ res[2] = "Ok"
    /\ before[1][KeyFoo].kind = "List" /\ before[2][KeyFoo].kind = "List"
    /\ before[1][KeyFoo].v = <<<<1>>>> /\ before[2][KeyFoo].v = <<<<1>>>>
    /\ store[KeyFoo].v = <<<<1>>, <<255>>, <<1>>, <<1>>, <<0>>>>
    /\ resp[2] = AppendEncoding(Value("List", <<<<1>>, <<255>>, <<1>>>>))
    /\ resp[1] = AppendEncoding(store[KeyFoo])

-----------------------------------------------------------------------------
(* Further properties of the parser.                                       *)

\* C26: when feed returns a ParseError the Context is as it was before the call,
\* in stage Init with idx 0 and its collected arguments untouched; an opcode byte
\* with bit 7 set whose key-type bits and command id are both invalid is
\* reported as KeyTypeInvalid.
C26_ParseErrorLeavesContext ==
    last.tag = "Err" =>
        /\ ctx = last.entry
        /\ ctx.stage = StageInitValue
        /\ ctx.idx = 0
        /\ ctx.buf_args = Some(<<>>)
        /\ (msg.op >= 128 /\ KeyTypeTryFrom(msg.op \div 2) = "Invalid"
                /\ CommandIdTryFrom(msg.op) = "Invalid") => last.err = "KeyTypeInvalid"

\* byte 200 has failed on a Context that served a request before
C26_Witness ==
    /\ last.tag = "Err"
    /\ last.err = "KeyTypeInvalid"
    /\ msg.op = 200
    /\ prev = "reset"
    /\ Len(ctx.argument_pool) >= 2

\* C29: in stage Init idx is 0 and in stage Kind idx is 1; the opcode the later
\* stages carry is that of the first byte received and the argument count is the
\* byte at position 1.
C29_StageCursor ==
    /\ ctx.stage.name = "Init" => ctx.idx = 0
    /\ ctx.stage.name = "Kind" =>
           /\ ctx.idx = 1
           /\ ctx.stage.cmd_type = CommandIdTryFrom(input[1])
    /\ ctx.stage.name = "ArgumentParsing" =>
           /\ ctx.idx >= 2
           /\ ctx.stage.cmd_type = CommandIdTryFrom(input[1])
           /\ ctx.stage.argument_count = input[2]

\* the second request of a connection waits for its count byte
C29_Witness ==
    /\ prev = "reset"
    /\ ctx.stage.name = "Kind"
    /\ ctx.idx = 1
    /\ Len(input) = 1
    /\ Len(ctx.argument_pool) >= 1

-----------------------------------------------------------------------------
(* Further properties of Append.                                           *)

\* the keys that hold a value
StoredKeys(st) == {k \in Keys : st[k].kind # "None"}

\* C28: an Append on a key that is not in the store returns KeyTypeDifferent, for
\* every declared key type and for none, writes no response and does not create
\* the key: the stored keys and their values are as before.
C28_AppendAbsent ==
    \A s \in Sessions :
        (AppendDone(s) /\ before[s][sreq[s].args.v[1]].kind = "None") =>
            /\ res[s] = "KeyTypeDifferent"
            /\ resp[s] = <<>>
            /\ StoredKeys(store) = StoredKeys(before[s])
            /\ SameStore(store, before[s])

\* an untyped Append with an argument has been refused on the absent key bar
\* while foo holds a value
C28_Witness ==
    /\ AppendDone(1)
    /\ sreq[1].key_type = NoKeyType
    /\ sreq[1].args.v = <<KeyBar, <<1>>>>
    /\ before[1][KeyBar].kind = "None"
    /\ store[KeyBar].kind = "None"
    /\ store[KeyFoo].kind = "String"
    /\ res[1] = "KeyTypeDifferent"

-----------------------------------------------------------------------------
(* Sets of two sessions on one key.                                        *)

\* session s is through with a Set
SetDone(s) == pc[s] = "done" /\ sreq[s].kind = "Set"

\* the key holds the payload of session s's Set with the kind it declared
HoldsPayloadOf(s) ==
    LET key == sreq[s].args.v[1]
    IN  /\ store[key].kind = sreq[s].key_type
        /\ C10_Holds(sreq[s].key_type, Tail(sreq[s].args.v), store[key].v)

\* C30: when the Sets of two sessions on the same key are both through, with the
\* same or different declared kinds, both have returned Ok, neither
\* KeyTypeDifferent, and the key holds the payload of one of the two with the
\* kind that Set declared.
C30_RacingSets ==
    \A s, t \in Sessions :
        (s # t /\ SetDone(s) /\ SetDone(t)
            /\ sreq[s].args.v[1] = sreq[t].args.v[1]) =>
            /\ res[s] = "Ok"
            /\ res[t] = "Ok"
            /\ HoldsPayloadOf(s) \/ HoldsPayloadOf(t)

-----------------------------------------------------------------------------
(* Appends of one session to a string.                                     *)

\* most arguments of an Append to a string after the key
MaxStrArgs == 3

\* arguments: two characters, a byte that is not UTF-8, and a character followed
\* by such a byte
StrArgSet == {<<1>>, <<2>>, <<255>>, <<2, 255>>}

StrSetRequests ==
    {Request("Set", "String", Some(<<KeyFoo, a>>)) : a \in {<<>>, <<1>>, <<255>>}}

StrAppendRequests ==
    {Request("Append", "String", Some(<<KeyFoo>> \o more)) :
        more \in UNION {[1..n -> StrArgSet] : n \in 1..MaxStrArgs}}

StrNext ==
    \/ \E req \in StrSetRequests : SetDispatch(1, req)
    \/ SetRemove(1)
    \/ SetInsert(1)
    \/ \E req \in StrAppendRequests : AppendDispatch(1, req)
    \/ AppendRun(1)
    \/ Finish(1)

StrSpec == Init /\ [][StrNext]_vars

\* argument i of args is appended: it is valid UTF-8
Taken(args, i) == \A j \in 1..Len(args[i]) : args[i][j] < 128

\* v is old followed by the arguments that are taken, each whole and in request
\* order: the taken arguments sit one after another from the end of old
InOrderAfter(old, args, v) ==
    LET start(i) == Len(old) + Len(Concat(SelectSeq(SubSeq(args, 1, i - 1), Utf8Valid)))
    IN  /\ Len(v) >= Len(old)
        /\ SubSeq(v, 1, Len(old)) = old
        /\ \A i \in 1..Len(args) :
               Taken(args, i) =>
                   /\ start(i) + Len(args[i]) <= Len(v)
                   /\ SubSeq(v, start(i) + 1, start(i) + Len(args[i])) = args[i]
        /\ Len(v) = start(Len(args) + 1)

\* C27: an Append to a String skips every argument that is not valid UTF-8 and
\* appends every valid argument in request order, returns Ok and writes the
\* resulting string; every stored string is valid UTF-8.
C27_AppendString ==
    /\ \A k \in Keys : store[k].kind = "String" => Utf8Valid(store[k].v)
    /\ \A s \in Sessions :
           (AppendDone(s) /\ sreq[s].key_type = "String"
               /\ before[s][sreq[s].args.v[1]].kind = "String") =>
               LET key == sreq[s].args.v[1]
               IN  /\ res[s] = "Ok"
                   /\ store[key].kind = "String"
                   /\ InOrderAfter(before[s][key].v, Tail(sreq[s].args.v), store[key].v)
                   /\ resp[s] = U32ToBe(Len(store[key].v)) \o store[key].v \o <<10>>

\* of three arguments the second has been skipped and the others appended in order
C27_Witness ==
    /\ AppendDone(1)
    /\ res[1] = "Ok"
    /\ sreq[1].args.v = <<KeyFoo, <<2>>, <<2, 255>>, <<1>>>>
    /\ before[1][KeyFoo].kind = "String"
    /\ before[1][KeyFoo].v = <<>>
    /\ store[KeyFoo].v = <<2, 1>>

-----------------------------------------------------------------------------
(* The session driver: two connections served by handle_socket_inner.      *)

\* most frames the peers write, all connections together
MaxFrames == 3

\* a frame and the newline that ends it on the transport
Line(op, args) == FrameBytes([op |-> op, args |-> args, nl |-> TRUE]) \o <<10>>

\* frames of the model: Set, a Set whose second length prefix holds a newline
\* byte, Type, and a byte that is no command
SetLine == Line(3, <<<<7>>, <<1>>>>)
SetSplitLine == Line(3, <<<<7>>, <<1, 1, 1, 1, 1, 1, 1, 1, 1, 1>>>>)
TypeLine == Line(9, <<<<7>>>>)
BadLine == Line(77, <<>>)

DriverLines == {SetLine, SetSplitLine, TypeLine, BadLine}

\* the key the frames of the model are parsed to
DriverKeys == {ReqKey(Feed(NewContext, TypeLine).req).v}

\* position of the first newline of w, 0 when there is none
FirstNewline(w) ==
    IF \E i \in 1..Len(w) : w[i] = 10
        THEN CHOOSE i \in 1..Len(w) : w[i] = 10 /\ \A j \in 1..(i - 1) : w[j] # 10
        ELSE 0

DriverInit ==
    /\ ParserInit
    /\ ConnInit
    /\ ClientInit
    /\ store = [k \in DriverKeys |-> NoValue]
    /\ pc = [s \in Sessions |-> "idle"]
    /\ sreq = [s \in Sessions |-> NoSessionRequest]
    /\ kt = [s \in Sessions |-> NoKeyType]
    /\ resp = [s \in Sessions |-> <<>>]
    /\ res = [s \in Sessions |-> "None"]
    /\ before = [s \in Sessions |-> [k \in DriverKeys |-> NoValue]]
    /\ wrote = [s \in Sessions |-> FALSE]

\* frames written on the connections in S
RECURSIVE SentOn(_)
SentOn(S) ==
    IF S = {} THEN 0
    ELSE LET s == CHOOSE x \in S : TRUE IN Len(conn[s].lines) + SentOn(S \ {s})

\* the peer writes a frame
PeerWrite(s, line) ==
    /\ conn[s].status # "eof"
    /\ SentOn(Sessions) < MaxFrames
    /\ conn' = [conn EXCEPT ![s].wire = @ \o line, ![s].lines = Append(@, line)]
    /\ UNCHANGED <<parserVars, storeVars, clientVars>>

\* the peer has shut down its side and everything it wrote is read:
\* read_until(b'\n') returns 0 and the loop breaks
DriverEof(s) ==
    /\ conn[s].status = "reading"
    /\ conn[s].wire = <<>>
    /\ conn' = [conn EXCEPT ![s].status = "eof"]
    /\ UNCHANGED <<parserVars, storeVars, clientVars>>

\* a driver that drops a line the parser refuses and reads on
DriverReadLenient(s) ==
    /\ conn[s].status = "reading"
    /\ FirstNewline(conn[s].wire) > 0
    /\ LET n == FirstNewline(conn[s].wire)
           buf == conn[s].input \o SubSeq(conn[s].wire, 1, n)
           rest == SubSeq(conn[s].wire, n + 1, Len(conn[s].wire))
           r == Feed(conn[s].ctx, buf)
       IN  conn' = [conn EXCEPT
               ![s].wire = rest,
               ![s].input = IF r.tag = "Err" THEN <<>> ELSE buf,
               ![s].ctx = r.ctx,
               ![s].status = IF r.tag = "Some" THEN "dispatch" ELSE "reading",
               ![s].req = IF r.tag = "Some" THEN r.req ELSE NoRequest,
               ![s].parsed = IF r.tag = "Some" THEN Append(@, r.req) ELSE @]
    /\ UNCHANGED <<parserVars, storeVars, clientVars>>

\* read_until(b'\n') appends a line to input, and feed runs on the whole input
DriverRead(s) ==
    /\ conn[s].status = "reading"
    /\ FirstNewline(conn[s].wire) > 0
    /\ LET n == FirstNewline(conn[s].wire)
           buf == conn[s].input \o SubSeq(conn[s].wire, 1, n)
           rest == SubSeq(conn[s].wire, n + 1, Len(conn[s].wire))
           r == Feed(conn[s].ctx, buf)
       IN  conn' = [conn EXCEPT
               ![s].wire = rest,
               ![s].input = buf,
               ![s].ctx = r.ctx,
               ![s].status = CASE r.tag = "Some" -> "dispatch"
                               [] r.tag = "None" -> "reading"
                               [] r.tag = "Err" -> "parse_error",
               ![s].req = IF r.tag = "Some" THEN r.req ELSE NoRequest,
               ![s].parsed = IF r.tag = "Some" THEN Append(@, r.req) ELSE @]
    /\ UNCHANGED <<parserVars, storeVars, clientVars>>

\* the request the driver of session s hands to hop.dispatch, when it is a kind
Dispatching(s, kind) ==
    {r \in {conn[s].req} : conn[s].status = "dispatch" /\ r.kind = kind}

\* a driver that keeps the input it has parsed
DriverFinishKeepInput(s) ==
    /\ conn[s].status = "dispatch"
    /\ pc[s] = "done"
    /\ conn' = IF res[s] = "Ok"
                   THEN [conn EXCEPT
                            ![s].out = Append(@, resp[s]),
                            ![s].ctx = IF conn[s].req.args.some
                                           THEN Reset(@, conn[s].req.args.v) ELSE @,
                            ![s].req = NoRequest,
                            ![s].status = "reading"]
                   ELSE [conn EXCEPT ![s].status = "panicked"]
    /\ pc' = [pc EXCEPT ![s] = "idle"]
    /\ sreq' = [sreq EXCEPT ![s] = NoSessionRequest]
    /\ kt' = [kt EXCEPT ![s] = NoKeyType]
    /\ resp' = [resp EXCEPT ![s] = <<>>]
    /\ res' = [res EXCEPT ![s] = "None"]
    /\ before' = [before EXCEPT ![s] = [k \in DOMAIN store |-> NoValue]]
    /\ wrote' = [wrote EXCEPT ![s] = FALSE]
    /\ UNCHANGED <<store, parserVars, clientVars>>

\* after hop.dispatch: unwrap, write_all, reset, input.clear(); the task ends in
\* the panic of unwrap when the command returned a DispatchError
DriverFinish(s) ==
    /\ conn[s].status = "dispatch"
    /\ pc[s] = "done"
    /\ conn' = IF res[s] = "Ok"
                   THEN [conn EXCEPT
                            ![s].out = Append(@, resp[s]),
                            ![s].ctx = IF conn[s].req.args.some
                                           THEN Reset(@, conn[s].req.args.v) ELSE @,
                            ![s].input = <<>>,
                            ![s].req = NoRequest,
                            ![s].status = "reading"]
                   ELSE [conn EXCEPT ![s].status = "panicked"]
    /\ pc' = [pc EXCEPT ![s] = "idle"]
    /\ sreq' = [sreq EXCEPT ![s] = NoSessionRequest]
    /\ kt' = [kt EXCEPT ![s] = NoKeyType]
    /\ resp' = [resp EXCEPT ![s] = <<>>]
    /\ res' = [res EXCEPT ![s] = "None"]
    /\ before' = [before EXCEPT ![s] = [k \in DOMAIN store |-> NoValue]]
    /\ wrote' = [wrote EXCEPT ![s] = FALSE]
    /\ UNCHANGED <<store, parserVars, clientVars>>

DriverNext ==
    \E s \in Sessions :
        \/ \E line \in DriverLines : PeerWrite(s, line)
        \/ DriverEof(s)
        \/ DriverRead(s)
        \/ \E req \in Dispatching(s, "Set") : SetDispatch(s, req)
        \/ SetRemove(s)
        \/ SetInsert(s)
        \/ \E req \in Dispatching(s, "Type") : TypeDispatch(s, req)
        \/ TypeRun(s)
        \/ DriverFinish(s)

DriverSpec == DriverInit /\ [][DriverNext]_vars

-----------------------------------------------------------------------------
(* Properties of the session driver.                                       *)

\* hop.dispatch has returned to the driver of session s with a DispatchError
DispatchFailed(s) ==
    /\ conn[s].status = "dispatch"
    /\ pc[s] = "done"
    /\ res[s] # "Ok"

\* the Context and the input are as a new request needs them
Cleared(c) ==
    /\ c.input = <<>>
    /\ c.ctx.stage = StageInitValue
    /\ c.ctx.idx = 0
    /\ c.ctx.buf_args = Some(<<>>)

\* C23: when dispatching a request returns a DispatchError the driver writes no
\* response for it and goes on with the connection: the parser is back in Init
\* with an empty input and the driver reads the next request.
C23_DispatchErrorPerRequest ==
    [][\A s \in Sessions :
          (DispatchFailed(s) /\ pc'[s] = "idle") =>
              /\ conn'[s].out = conn[s].out
              /\ conn'[s].status = "reading"
              /\ Cleared(conn'[s])]_vars

\* the request a line is parsed to
RequestOf(line) == Feed(NewContext, line).req

\* response i is the answer to request i: Set writes its argument as bytes, Type
\* writes the kind of a byte string
Answers(req, bytes) ==
    CASE req.kind = "Set" -> bytes = U32ToBe(Len(req.args.v[2])) \o req.args.v[2] \o <<10>>
      [] req.kind = "Type" -> bytes = <<0, 0, 0, 0, 0, 0, 0, 0, 10>>
      [] OTHER -> FALSE

\* requests and responses of a connection, one for one and in the order of the
\* frames
InOrder(c) ==
    /\ Len(c.parsed) <= Len(c.lines)
    /\ \A i \in 1..Len(c.parsed) : c.parsed[i] = RequestOf(c.lines[i])
    /\ Len(c.out) <= Len(c.parsed)
    /\ Len(c.parsed) <= Len(c.out) + 1
    /\ \A i \in 1..Len(c.out) : Answers(c.parsed[i], c.out[i])
    /\ c.status = "reading" => Len(c.out) = Len(c.parsed)

\* C24: within one session the requests are dispatched one at a time in the
\* order of their frames; every successfully dispatched request gets exactly one
\* response, in that order, before the next request is parsed; between requests
\* the input is empty and the parser is reset.
C24_SerialSession ==
    [][\A s \in Sessions :
          /\ InOrder(conn'[s])
          /\ pc'[s] # "idle" => conn'[s].status = "dispatch"
          /\ Len(conn'[s].parsed) > Len(conn[s].parsed) =>
                 /\ pc[s] = "idle"
                 /\ Len(conn[s].out) = Len(conn[s].parsed)
                 /\ Len(conn'[s].parsed) = Len(conn[s].parsed) + 1
          /\ (pc[s] = "done" /\ res[s] = "Ok" /\ pc'[s] = "idle") =>
                 /\ conn'[s].out = Append(conn[s].out, resp[s])
                 /\ Cleared(conn'[s])
          /\ (conn[s].status = "reading" /\ Len(conn[s].out) = Len(conn[s].parsed)
                 /\ Len(conn[s].out) > 0 /\ conn[s].input = <<>>) =>
                 Cleared(conn[s])]_vars

\* a Set that came in two reads and a Type have been answered in that order
C24_Witness ==
    /\ conn[1].lines = <<SetSplitLine, TypeLine>>
    /\ Len(conn[1].out) = 2
    /\ Len(conn[1].out[1]) = 15
    /\ Len(conn[1].out[2]) = 9
    /\ conn[1].status = "reading"
    /\ Cleared(conn[1])

\* feed returns a ParseError in this step of session s
FeedFails(s) ==
    /\ conn[s].status = "reading"
    /\ Len(conn'[s].wire) < Len(conn[s].wire)
    /\ Feed(conn[s].ctx,
            conn[s].input \o SubSeq(conn[s].wire, 1, FirstNewline(conn[s].wire))).tag = "Err"

\* C25: after feed returns a ParseError the session ends: the loop stops, no
\* response is written, nothing the connection receives later is parsed or
\* dispatched, and the store and the other sessions are as they were.
C25_ParseErrorEndsSession ==
    [][\A s \in Sessions :
          /\ FeedFails(s) =>
                 /\ conn'[s].status = "parse_error"
                 /\ conn'[s].out = conn[s].out
                 /\ conn'[s].parsed = conn[s].parsed
                 /\ pc'[s] = "idle"
                 /\ UNCHANGED storeVars
                 /\ \A t \in Sessions \ {s} : conn'[t] = conn[t]
          /\ conn[s].status = "parse_error" =>
                 /\ conn'[s].status = "parse_error"
                 /\ conn'[s].input = conn[s].input
                 /\ conn'[s].ctx = conn[s].ctx
                 /\ conn'[s].out = conn[s].out
                 /\ conn'[s].parsed = conn[s].parsed
                 /\ pc'[s] = "idle"
                 /\ ~wrote'[s]
                 /\ Len(conn'[s].wire) >= Len(conn[s].wire)]_vars

\* session 1 has ended on a byte that is no command, a frame that came after it
\* lies unread, and session 2 has had its Set answered
C25_Witness ==
    /\ conn[1].status = "parse_error"
    /\ conn[1].lines = <<BadLine, SetLine>>
    /\ conn[1].wire = SetLine
    /\ conn[1].out = <<>>
    /\ conn[2].status = "reading"
    /\ Len(conn[2].out) = 1
    /\ \E k \in DOMAIN store : store[k].kind = "Bytes"

-----------------------------------------------------------------------------
(* Failing commands and the store.                                         *)

\* C22: a Set, Append, Is or Type that has returned a DispatchError has performed
\* no write on the store: it has inserted, removed and changed no key, also when
\* another session works on the same key at the same time.
C22_FailedDispatchWritesNothing ==
    \A s \in Sessions :
        (pc[s] = "done" /\ sreq[s].kind \in {"Set", "Append", "Is", "Type"}
            /\ res[s] \notin {"Ok", "None"}) => ~wrote[s]

-----------------------------------------------------------------------------
(* Increment.                                                              *)

\* largest stored integer an Increment is begun on
MaxCount == 3

\* the check of Increment::dispatch
IncrementCheck(req) == IF ~ReqKey(req).some THEN "KeyRetrieval" ELSE "Ok"

\* the kind IncrementBy::increment works on: the declared one, else the stored
\* one, else Integer
IncrementKind(st, declared, key) ==
    IF declared # NoKeyType THEN declared
    ELSE IF StateKeyType(st, key) # NoKeyType THEN StateKeyType(st, key)
    ELSE "Integer"

\* the integer does not grow past the bound
IncrementFits(req) ==
    (ReqKey(req).some /\ store[ReqKey(req).v].kind = "Integer")
        => store[ReqKey(req).v].v < MaxCount

IncrementDispatch(s, req) ==
    /\ pc[s] = "idle"
    /\ req.kind = "Increment"
    /\ IncrementFits(req)
    /\ Begin(s, req, IncrementCheck(req))

\* IncrementBy::increment(hop, key, key_type, delta) on an integer: the key is
\* inserted with the empty value when it is absent, delta is added, the new value
\* is written.  The requests of the model declare Integer or nothing and the
\* store holds integers, so the Float arm is never entered.
IncrementByIncrement(s, delta) ==
    LET key == ReqKey(sreq[s]).v
        K == IncrementKind(store, sreq[s].key_type, key)
        st == StateKeyOrInsertWith(store, key, K)
    IN  IF K # "Integer" \/ st[key].kind # K
            THEN /\ res' = [res EXCEPT ![s] = "KeyTypeDifferent"]
                 /\ UNCHANGED <<store, resp, wrote>>
            ELSE /\ store' = [st EXCEPT ![key] = Value(K, st[key].v + delta)]
                 /\ resp' = [resp EXCEPT ![s] = WriteInt(resp[s], st[key].v + delta)]
                 /\ res' = [res EXCEPT ![s] = "Ok"]
                 /\ wrote' = [wrote EXCEPT ![s] = TRUE]

\* Increment::dispatch after its check: IncrementBy::increment with delta 1
IncrementRun(s) ==
    /\ pc[s] = "run"
    /\ sreq[s].kind = "Increment"
    /\ IncrementByIncrement(s, 1)
    /\ pc' = [pc EXCEPT ![s] = "done"]
    /\ UNCHANGED <<sreq, kt, before, parserVars, driverVars, clientVars>>

IncSetRequests ==
    {Request("Set", "Integer", Some(<<key, <<0, 0, 0, 0, 0, 0, 0, 2>>>>)) : key \in Keys}

\* Increments with no arguments at all, with an empty argument list, and on a key
IncrementRequests ==
    {Request("Increment", k, a) :
        k \in {NoKeyType, "Integer"},
        a \in {NoArgs, Some(<<>>)} \cup {Some(<<key>>) : key \in Keys}}

IncNext ==
    \/ \E req \in IncSetRequests : SetDispatch(1, req)
    \/ SetRemove(1)
    \/ SetInsert(1)
    \/ \E req \in IncrementRequests : IncrementDispatch(1, req)
    \/ IncrementRun(1)
    \/ Finish(1)

IncSpec == Init /\ [][IncNext]_vars

\* C21: an Increment on a request whose arg(0) is missing returns KeyUnspecified.
C21_IncrementNoKey ==
    \A s \in Sessions :
        (pc[s] = "done" /\ sreq[s].kind = "Increment" /\ ~ReqArg(sreq[s], 0).some)
            => res[s] = "KeyUnspecified"

-----------------------------------------------------------------------------
(* Frames that hold a newline byte.                                        *)

\* a Set whose second argument holds a newline byte followed by the byte of Type
SetNewlineLine == Line(3, <<<<7>>, <<10, 9>>>>)

\* Sets only, so that every dispatch succeeds: a plain one, one with the newline
\* byte in a length prefix, one with it in a payload
SplitLines == {SetLine, SetSplitLine, SetNewlineLine}

SplitNext ==
    \E s \in Sessions :
        \/ \E line \in SplitLines : PeerWrite(s, line)
        \/ DriverEof(s)
        \/ DriverRead(s)
        \/ \E req \in Dispatching(s, "Set") : SetDispatch(s, req)
        \/ SetRemove(s)
        \/ SetInsert(s)
        \/ DriverFinish(s)

SplitSpec == DriverInit /\ [][SplitNext]_vars

\* C31: a frame that holds the byte 0x0A in a length prefix or in a payload is
\* one request to the driver: there is never more than one dispatch for a frame,
\* and when everything the peer wrote is read and answered, there was exactly one
\* dispatch for each frame and no byte of a frame is left in the input or has
\* moved the parser out of Init as the opcode of another request.
C31_OneRequestPerFrame ==
    \A s \in Sessions :
        /\ Len(conn[s].parsed) <= Len(conn[s].lines)
        /\ conn[s].status # "parse_error"
        /\ (conn[s].wire = <<>> /\ conn[s].status \in {"reading", "eof"}) =>
               /\ Len(conn[s].parsed) = Len(conn[s].lines)
               /\ Len(conn[s].out) = Len(conn[s].lines)
               /\ Cleared(conn[s])

\* ---------------------------------------------------------------------------
\* the client's ServerBackend
\* ---------------------------------------------------------------------------

\* calls made on one backend
MaxCalls == 4

\* the integers a key of the server may hold when the backend connects: after
\* one increment the encoding of the first has the byte 0x0A as its last byte,
\* that of the second as its last but one
ClientBases == {9, 2559}

\* the key the callers name
ClientKey == FooBytes

\* the frame ServerBackend::increment and ::decrement build: the opcode, one
\* argument, the key's length in the low byte of the prefix, the key, a newline
ClientFrame(op) == <<CommandIdByte(op), 1, 0, 0, 0, Len(ClientKey) % 256>> \o ClientKey \o <<10>>

ClientOps == {"Increment", "Decrement"}

\* send_and_wait up to the end of its first statement: the writer's lock is
\* taken, the frame written, and the lock released
Call(t, op) ==
    /\ client.task[t].pc = "idle"
    /\ client.calls < MaxCalls
    /\ client' = [client EXCEPT !.sock = Append(@, [from |-> t, bytes |-> ClientFrame(op)]),
                                !.calls = @ + 1,
                                !.task[t].pc = "sent"]
    /\ UNCHANGED <<parserVars, storeVars, driverVars>>

\* self.reader.lock().await: the lock goes to a task that asks while no task
\* holds it
Lock(t) ==
    /\ client.task[t].pc = "sent"
    /\ \A u \in Tasks : client.task[u].pc # "locked"
    /\ client' = [client EXCEPT !.task[t].pc = "locked"]
    /\ UNCHANGED <<parserVars, storeVars, driverVars>>

\* the server answers the oldest frame it has not read: the key moves by one
\* and the response is the new integer, eight bytes and a newline
Serve ==
    /\ client.sock # <<>>
    /\ LET f == Head(client.sock)
           n == IF f.bytes[1] = CommandIdByte("Increment")
                    THEN client.counter + 1
                    ELSE client.counter - 1
       IN  client' = [client EXCEPT !.sock = Tail(@),
                                    !.counter = n,
                                    !.stream = WriteInt(@, n),
                                    !.task[f.from].expect = Append(@, n)]
    /\ UNCHANGED <<parserVars, storeVars, driverVars>>

\* read_until(b'\n') and the decoding of increment and decrement: the bytes
\* through the first newline leave the stream; s.get(..8).unwrap() panics on
\* fewer than eight, and the guard of the reader is dropped either way
Read(t) ==
    /\ client.task[t].pc = "locked"
    /\ \E i \in 1..Len(client.stream) : client.stream[i] = 10
    /\ LET n == FirstNewline(client.stream)
           s == SubSeq(client.stream, 1, n)
           rest == SubSeq(client.stream, n + 1, Len(client.stream))
       IN  client' = [client EXCEPT
               !.stream = rest,
               !.task[t] = IF Len(s) >= 8
                               THEN [@ EXCEPT !.pc = "idle",
                                              !.got = Append(@, I64FromBe(SubSeq(s, 1, 8)))]
                               ELSE [@ EXCEPT !.pc = "panicked"]]
    /\ UNCHANGED <<parserVars, storeVars, driverVars>>

\* one task that makes one call after the other
SeqInit ==
    /\ ParserInit
    /\ StoreInit
    /\ ConnInit
    /\ client \in {NewClient(n) : n \in ClientBases}

SeqNext ==
    \/ \E op \in ClientOps : Call(1, op)
    \/ Lock(1)
    \/ Serve
    \/ Read(1)

SeqSpec == SeqInit /\ [][SeqNext]_vars

\* two tasks that call on the same backend
ConcNext ==
    \/ \E t \in Tasks, op \in ClientOps : Call(t, op)
    \/ \E t \in Tasks : Lock(t)
    \/ Serve
    \/ \E t \in Tasks : Read(t)

ConcSpec == Init /\ [][ConcNext]_vars

\* what the calls of t returned is, call for call, what the server encoded for
\* the requests of t
ReturnsEncoded(t) ==
    /\ Len(client.task[t].got) <= Len(client.task[t].expect)
    /\ \A i \in 1..Len(client.task[t].got) :
           i <= Len(client.task[t].expect) =>
               client.task[t].got[i] = client.task[t].expect[i]

\* C32: in a sequence of calls of increment and decrement no call panics, each
\* returns the integer the server encoded for it, and when a call has returned
\* and the server owes no response the read stream holds no byte of a response
\* already returned.
C32_IntegerResponses ==
    /\ client.task[1].pc # "panicked"
    /\ ReturnsEncoded(1)
    /\ (client.task[1].pc = "idle" /\ client.sock = <<>>) => client.stream = <<>>

\* C33: each of two tasks that call on the same backend receives the responses
\* to the requests it sent.
C33_ResponsesNotSwapped ==
    \A t \in Tasks : ReturnsEncoded(t)

====
